---- MODULE Spec2Model ----
(***************************************************************************)
(* GlareMyAurora: the response-extraction protocol, the fallback (demo)    *)
(* provider and the three request flows (forecast, photo, chat) together   *)
(* with the React state that consumes them.                                *)
(*                                                                         *)
(* Texts are sequences of one-character strings, so that the regular       *)
(* expressions and JSON.parse of the source are modelled character by      *)
(* character; the grave accent U+0060, which a TLA+ string cannot hold, is *)
(* the element BT.  JSON values are tagged records:                        *)
(*   [t |-> "null"], [t |-> "bool", b |-> ...],                            *)
(*   [t |-> "num", neg, inf, digits, e], [t |-> "str", s |-> chars],       *)
(*   [t |-> "arr", a |-> seq], [t |-> "obj", o |-> function on keys].      *)
(***************************************************************************)
EXTENDS Integers, Sequences, FiniteSets, TLC

(***************************************************************************)
(* Bounds of the model.                                                    *)
(***************************************************************************)
\* the number of segments a model reply is assembled from
MaxSegs == 3

(***************************************************************************)
(* Characters and strings.                                                 *)
(***************************************************************************)
\* A character is a one-character string when a TLA+ string can hold it, and
\* the name "U+XXXX" of its code point (four to six upper-case hexadecimal
\* digits) otherwise.

\* the white space of the JSON grammar, which JSON.parse skips between
\* tokens: space, line feed, tab, carriage return
JsonWhiteSpace == {" ", "\n", "\t", "\r"}

\* the code points String.prototype.trim removes: the WhiteSpace and the
\* LineTerminator productions of ECMAScript (tab, line feed, vertical tab,
\* form feed, carriage return, space, no-break space, the Unicode space
\* separators, line and paragraph separator, byte order mark)
WhiteSpace ==
  {" ", "\n", "\t", "\r", "\f", "U+0009", "U+000A", "U+000B", "U+000C",
   "U+000D", "U+0020", "U+00A0", "U+1680", "U+2000", "U+2001", "U+2002",
   "U+2003", "U+2004", "U+2005", "U+2006", "U+2007", "U+2008", "U+2009",
   "U+200A", "U+2028", "U+2029", "U+202F", "U+205F", "U+3000", "U+FEFF"}

Digits == {"0", "1", "2", "3", "4", "5", "6", "7", "8", "9"}

DigitVal(c) ==
  CASE c = "0" -> 0 [] c = "1" -> 1 [] c = "2" -> 2 [] c = "3" -> 3
    [] c = "4" -> 4 [] c = "5" -> 5 [] c = "6" -> 6 [] c = "7" -> 7
    [] c = "8" -> 8 [] c = "9" -> 9

\* the literal p occurs in s at position i
MatchAt(s, p, i) ==
  /\ i >= 1
  /\ i + Len(p) - 1 <= Len(s)
  /\ \A k \in 1..Len(p) : s[i + k - 1] = p[k]

\* the grave accent character U+0060
BT == "U+0060"

\* the literals of the three regular expressions of geminiService.ts, whose
\* fence is three grave accents
FENCE == <<BT, BT, BT>>
FENCE_JSON == FENCE \o <<"j","s","o","n">>
FENCE_JSON_NL == FENCE_JSON \o <<"\n">>
FENCE_NL == FENCE \o <<"\n">>
NL_FENCE == <<"\n">> \o FENCE

NoMatch == [found |-> FALSE]

\* the least and the greatest element of a nonempty finite set of integers
Least(S) == CHOOSE k \in S : \A m \in S : k <= m
Greatest(S) == CHOOSE k \in S : \A m \in S : m <= k

\* the lazy group ([\s\S]*?) followed by the literal close: the first
\* position k >= j at which close matches, 0 when there is none
LazyClose(s, close, j) ==
  LET ks == {k \in j..Len(s) : MatchAt(s, close, k)}
  IN IF ks = {} THEN 0 ELSE Least(ks)

\* String.prototype.match / replace with the non-global regular expression
\* /open([\s\S]*?)close/ for literals open and close: the leftmost start
\* from which the expression matches, and from it the shortest group
\* the match that starts at i, whose group ends before k
MatchFrom(s, open, close, i, k) ==
  [found |-> TRUE, index |-> i,
   group |-> SubSeq(s, i + Len(open), k - 1),
   last |-> k + Len(close) - 1]

\* the match among the starts from which the expression matches
LeftmostMatch(s, open, close, starts) ==
  IF starts = {} THEN NoMatch
  ELSE MatchFrom(s, open, close, Least(starts),
                 LazyClose(s, close, Least(starts) + Len(open)))

RegexExec(s, open, close) ==
  LeftmostMatch(s, open, close,
                {i \in 1..Len(s) : /\ MatchAt(s, open, i)
                                   /\ LazyClose(s, close, i + Len(open)) # 0})

\* the tagged pattern matches somewhere in the text
MatchTagged_Found(text) ==
  \E i \in 1..Len(text) : /\ MatchAt(text, FENCE_JSON_NL, i)
                          /\ LazyClose(text, NL_FENCE, i + Len(FENCE_JSON_NL)) # 0

\* the tagged pattern with a greedy group ([\s\S]*): the group runs to the
\* last closing fence
MatchTagged_Greedy(text) ==
  IF ~MatchTagged_Found(text) THEN NoMatch
  ELSE MatchFrom(text, FENCE_JSON_NL, NL_FENCE,
                 Least({i \in 1..Len(text) : MatchAt(text, FENCE_JSON_NL, i)}),
                 Greatest({k \in 1..Len(text) : MatchAt(text, NL_FENCE, k)}))

\* text.match(/FENCE json \n ([\s\S]*?) \n FENCE/)
MatchTagged(text) == RegexExec(text, FENCE_JSON_NL, NL_FENCE)

\* text.match(/FENCE \n ([\s\S]*?) \n FENCE/)
MatchUntagged(text) == RegexExec(text, FENCE_NL, NL_FENCE)

\* String.prototype.trim: from the first to the last character that is not
\* white space
Between(s, ink) ==
  IF ink = {} THEN <<>> ELSE SubSeq(s, Least(ink), Greatest(ink))

Trim(s) == Between(s, {k \in 1..Len(s) : s[k] \notin WhiteSpace})

\* text.replace(/FENCE json [\s\S]*? FENCE/, ""): the first match is cut out
CutOut(text, m) ==
  IF m.found
  THEN SubSeq(text, 1, m.index - 1) \o SubSeq(text, m.last + 1, Len(text))
  ELSE text

StripJsonBlock(text) == CutOut(text, RegexExec(text, FENCE_JSON, FENCE))

(***************************************************************************)
(* JSON.parse, by recursive descent over the characters.                   *)
(***************************************************************************)
JNull == [t |-> "null"]
JBool(b) == [t |-> "bool", b |-> b]
JStr(s) == [t |-> "str", s |-> s]
JArr(a) == [t |-> "arr", a |-> a]
JObj(o) == [t |-> "obj", o |-> o]

\* the parser's internal result: a failure, or a value and the position
\* after it
SyntaxError == [ok |-> FALSE]
Parsed(v, next) == [ok |-> TRUE, v |-> v, next |-> next]

\* how a call completes: it returns (a promise resolves with) v, or it
\* throws (a promise rejects with) e
Return(v) == [kind |-> "return", v |-> v]
Throw(e) == [kind |-> "throw", e |-> e]

CharAt(s, i) == IF i >= 1 /\ i <= Len(s) THEN s[i] ELSE "EOF"

\* the first position from i on (the end of s included) whose character is
\* not in the set cs
ScanWhile(s, i, cs) ==
  Least({k \in i..(Len(s) + 1) : CharAt(s, k) \notin cs} \cup {Len(s) + 1})

(***************************************************************************)
(* Numbers.  A JavaScript Number is an IEEE 754 double, and JSON.parse     *)
(* gives the double nearest to the decimal it reads (ties to the even      *)
(* mantissa): digits beyond the seventeenth are lost, a large decimal      *)
(* becomes Infinity and a tiny one zero.  A finite Number is named by the  *)
(* shortest decimal that reads back as that double, whose digits are those *)
(* Number.prototype.toString prints:                                       *)
(*   [t |-> "num", neg, inf, digits, e]  is  (-1)^neg * digits * 10^e,     *)
(* digits being a sequence of 0..9 without leading or trailing zero, empty *)
(* for zero (JSON.parse("-0") is the negative zero).  The integers of TLC  *)
(* have 32 bits, so the conversion works on naturals of any size:          *)
(* sequences of limbs in base 10^4, the least significant first, without   *)
(* a zero at the end (the empty sequence is 0).                            *)
(***************************************************************************)
Max(a, b) == IF a >= b THEN a ELSE b

Pow10Small(k) == <<1, 10, 100, 1000>>[k + 1]
Pow2Small(k) ==
  <<1, 2, 4, 8, 16, 32, 64, 128, 256, 512, 1024, 2048, 4096>>[k + 1]
Pow5Small(k) == <<1, 5, 25, 125, 625>>[k + 1]

Limb(a, k) == IF k >= 1 /\ k <= Len(a) THEN a[k] ELSE 0

\* the sequence without the zero limbs at its end
BigNorm(a) ==
  SubSeq(a, 1, Greatest({k \in 1..Len(a) : a[k] # 0} \cup {0}))

\* a < b, decided at the most significant limb d in which they differ
BigLessAt(a, b, d) == d # 0 /\ a[d] < b[d]

BigLess(a, b) ==
  IF Len(a) # Len(b) THEN Len(a) < Len(b)
  ELSE BigLessAt(a, b, Greatest({k \in 1..Len(a) : a[k] # b[k]} \cup {0}))

\* the carry into limb k of a sequence y of limbs below 2 * 10^4 - 1: some
\* limb below k overflows and every limb between passes the carry on
CarryIn(y, k) ==
  \E j \in 1..(k - 1) : /\ y[j] >= 10000
                        /\ \A i \in (j + 1)..(k - 1) : y[i] = 9999

CarriedAt(y, k) ==
  IF k > Len(y) THEN IF CarryIn(y, k) THEN 1 ELSE 0
  ELSE (y[k] + (IF CarryIn(y, k) THEN 1 ELSE 0)) % 10000

\* the natural number of a sequence of limbs below 2 * 10^4 - 1
Carried(y) == BigNorm([k \in 1..(Len(y) + 1) |-> CarriedAt(y, k)])

BigAdd(a, b) ==
  Carried(SubSeq([k \in 1..Max(Len(a), Len(b)) |-> Limb(a, k) + Limb(b, k)],
                 1, Max(Len(a), Len(b))))

\* a * c for a factor c below 10^4
BigTimes(a, c) ==
  Carried(SubSeq([k \in 1..(Len(a) + 1) |->
                    ((Limb(a, k) * c) % 10000)
                      + ((Limb(a, k - 1) * c) \div 10000)],
                 1, Len(a) + 1))

\* the borrow out of the limbs below k in a - b
BorrowIn(a, b, k) ==
  \E j \in 1..(k - 1) : /\ a[j] < Limb(b, j)
                        /\ \A i \in (j + 1)..(k - 1) : a[i] = Limb(b, i)

\* a - b for a >= b
BigMinus(a, b) ==
  BigNorm([k \in 1..Len(a) |->
             (a[k] - Limb(b, k) - (IF BorrowIn(a, b, k) THEN 1 ELSE 0)
                + 10000) % 10000])

\* a * 10^(4n)
BigShift(a, n) == IF a = <<>> THEN <<>> ELSE [k \in 1..n |-> 0] \o a

BigTimes8(a, c) ==
  BigTimes(BigTimes(BigTimes(BigTimes(BigTimes(BigTimes(BigTimes(BigTimes(
    a, c), c), c), c), c), c), c), c)

\* a * c^n
RECURSIVE BigTimesPow(_, _, _)
BigTimesPow(a, c, n) ==
  IF a = <<>> \/ n = 0 THEN a
  ELSE IF n >= 8 THEN BigTimesPow(BigTimes8(a, c), c, n - 8)
  ELSE BigTimesPow(BigTimes(a, c), c, n - 1)

\* a * 2^n, a * 5^n and a * 10^n
BigTimesPow2(a, n) ==
  BigTimes(BigTimesPow(a, 8192, n \div 13), Pow2Small(n % 13))
BigTimesPow5(a, n) ==
  BigTimes(BigTimesPow(a, 3125, n \div 5), Pow5Small(n % 5))
BigTimesPow10(a, n) == BigShift(BigTimes(a, Pow10Small(n % 4)), n \div 4)

\* the decimal digit n places left of the last one, of the digits d
DigitFromEnd(d, n) == IF n < Len(d) THEN d[Len(d) - n] ELSE 0

\* the natural number of a sequence of decimal digits, the most significant
\* first
DigitsToBig(d) ==
  BigNorm([k \in 1..((Len(d) + 3) \div 4) |->
             DigitFromEnd(d, 4 * k - 4) + 10 * DigitFromEnd(d, 4 * k - 3)
               + 100 * DigitFromEnd(d, 4 * k - 2)
               + 1000 * DigitFromEnd(d, 4 * k - 1)])

\* the sequence d of digits from its first digit that is not zero
FromFirstNonZero(d, nz) ==
  IF nz = {} THEN <<>> ELSE SubSeq(d, Least(nz), Len(d))

\* the decimal digits of a natural number, the most significant first
BigToDigits(a) ==
  FromFirstNonZero(
    [i \in 1..(4 * Len(a)) |->
       (a[Len(a) - ((i - 1) \div 4)] \div Pow10Small(3 - ((i - 1) % 4))) % 10],
    {i \in 1..(4 * Len(a)) :
       (a[Len(a) - ((i - 1) \div 4)] \div Pow10Small(3 - ((i - 1) % 4))) % 10 # 0})

JNumber(neg, inf, digits, e) ==
  [t |-> "num", neg |-> neg, inf |-> inf, digits |-> digits, e |-> e]

Zero(neg) == JNumber(neg, FALSE, <<>>, 0)
Infinity(neg) == JNumber(neg, TRUE, <<>>, 0)

\* the number digits * 10^e, nz being the places of the digits that are not
\* zero: the zeros before the first are dropped, those after the last counted
\* in the exponent
FiniteFrom(neg, d, e, nz) ==
  IF nz = {} THEN Zero(neg)
  ELSE JNumber(neg, FALSE, SubSeq(d, Least(nz), Greatest(nz)),
               e + Len(d) - Greatest(nz))

Finite(neg, d, e) == FiniteFrom(neg, d, e, {k \in 1..Len(d) : d[k] # 0})

(***************************************************************************)
(* From a double to its shortest decimal.  The double m * 2^q is the one   *)
(* read from every decimal between the midpoints to its neighbours, the    *)
(* midpoints included when m is even.  In units of 2^(q-2) the double is   *)
(* 4m and the midpoints are 4m - 2 (4m - 1 when m = 2^52, the neighbour    *)
(* below being half as far) and 4m + 2.                                    *)
(***************************************************************************)
Two52 == <<496, 2737, 5996, 4503>>
Two53 == <<992, 5474, 1992, 9007>>

\* x * 2^s as a natural number times a power of ten
ScaledBy(x, s) == IF s >= 0 THEN BigTimesPow2(x, s) ELSE BigTimesPow5(x, -s)

Padded(d, len) == [k \in 1..(len - Len(d)) |-> 0] \o d

AllZeroFrom(d, k) == \A i \in k..Len(d) : d[i] = 0

\* a < b for sequences of digits of one length
DigitsLess(a, b) ==
  \E k \in 1..Len(a) : /\ a[k] < b[k]
                       /\ \A j \in 1..(k - 1) : a[j] = b[j]

\* the digits d, which are not all 9, plus one in the last place
PlusOneAt(d, j) ==
  [i \in 1..Len(d) |-> IF i < j THEN d[i] ELSE IF i = j THEN d[i] + 1 ELSE 0]

PlusOne(d) == PlusOneAt(d, Greatest({i \in 1..Len(d) : d[i] # 9}))

\* the first k digits of v followed by zeros lies in the interval
DownIn(lo, v, closed, k) ==
  \/ DigitsLess(SubSeq(lo, 1, k), SubSeq(v, 1, k))
  \/ closed /\ SubSeq(lo, 1, k) = SubSeq(v, 1, k) /\ AllZeroFrom(lo, k + 1)

\* the first k digits of v, plus one in the last place, followed by zeros
\* lies in the interval
UpIn(v, hi, closed, k) ==
  \/ DigitsLess(PlusOne(SubSeq(v, 1, k)), SubSeq(hi, 1, k))
  \/ /\ PlusOne(SubSeq(v, 1, k)) = SubSeq(hi, 1, k)
     /\ closed \/ ~AllZeroFrom(hi, k + 1)

\* of the two, the upper one is the nearer to v, or as near and even
UpNearer(v, k) ==
  /\ k < Len(v)
  /\ \/ v[k + 1] > 5
     \/ v[k + 1] = 5 /\ ~AllZeroFrom(v, k + 2)
     \/ v[k + 1] = 5 /\ v[k] % 2 = 1

TakeUp(lo, v, hi, closed, k) ==
  UpIn(v, hi, closed, k) /\ (~DownIn(lo, v, closed, k) \/ UpNearer(v, k))

\* the decimal with the fewest digits in the interval from lo to hi around
\* v, and of those the nearest to v: lo, v and hi are digits of one length,
\* the first of them 0, in units of 10^e
RECURSIVE ShortestFrom(_, _, _, _, _, _, _)
ShortestFrom(neg, lo, v, hi, closed, e, k) ==
  IF TakeUp(lo, v, hi, closed, k)
  THEN Finite(neg, PlusOne(SubSeq(v, 1, k)), e + Len(v) - k)
  ELSE IF DownIn(lo, v, closed, k)
  THEN Finite(neg, SubSeq(v, 1, k), e + Len(v) - k)
  ELSE ShortestFrom(neg, lo, v, hi, closed, e, k + 1)

ShortestPadded(neg, lo, v, hi, closed, e) ==
  ShortestFrom(neg, Padded(lo, Len(hi) + 1), Padded(v, Len(hi) + 1),
               Padded(hi, Len(hi) + 1), closed, e, 1)

\* the place of the midpoint below 4m, in units of 2^(q-2)
LowerGap(m, q) == IF m = Two52 /\ q > -1074 THEN <<1>> ELSE <<2>>

\* the Number that is the double m * 2^q, for 0 < m < 2^53 and q <= 971
Shortest(neg, m, q) ==
  ShortestPadded(
    neg,
    BigToDigits(ScaledBy(BigMinus(BigTimes(m, 4), LowerGap(m, q)), q - 2)),
    BigToDigits(ScaledBy(BigTimes(m, 4), q - 2)),
    BigToDigits(ScaledBy(BigAdd(BigTimes(m, 4), <<2>>), q - 2)),
    m[1] % 2 = 0,
    IF q - 2 >= 0 THEN 0 ELSE q - 2)

(***************************************************************************)
(* From a decimal to the nearest double.  The decimal is the quotient of   *)
(* two naturals n / t; with the binary exponent q that puts n / (t * 2^q)  *)
(* between 2^52 and 2^53 (q = -1074 for the subnormal doubles) the         *)
(* mantissa is that quotient rounded to the nearest integer, the even one  *)
(* in a tie.                                                               *)
(***************************************************************************)
\* the greatest digit c for which c * t is at most rem
QuotientDigit(rem, t) ==
  Greatest({c \in 0..9 : ~BigLess(rem, BigTimes(t, c))})

RECURSIVE LongDivision(_, _, _, _)

LongDivisionDigit(rem, t, i, acc, ti, c) ==
  LongDivision(BigMinus(rem, BigTimes(ti, c)), t, i - 1, Append(acc, c))

LongDivisionPlace(rem, t, i, acc, ti) ==
  LongDivisionDigit(rem, t, i, acc, ti, QuotientDigit(rem, ti))

\* the quotient of rem by t, of at most i digits, after the digits acc, and
\* the remainder
LongDivision(rem, t, i, acc) ==
  IF i = 0 THEN [quot |-> acc, rem |-> rem]
  ELSE LongDivisionPlace(rem, t, i, acc, BigTimesPow10(t, i - 1))

\* the remainder is more than half of t, or half of it and the quotient odd
RoundsUp(d, t) ==
  \/ BigLess(t, BigTimes(d.rem, 2))
  \/ BigTimes(d.rem, 2) = t /\ d.quot[Len(d.quot)] % 2 = 1

Mantissa(d, t) ==
  IF RoundsUp(d, t) THEN BigAdd(DigitsToBig(d.quot), <<1>>)
  ELSE DigitsToBig(d.quot)

\* the Number of the mantissa m and the binary exponent q: a mantissa that
\* was rounded up to 2^53 is 2^52 with the next exponent, and a double
\* beyond the greatest finite one is Infinity
DoubleOf(neg, m, q) ==
  IF m = <<>> THEN Zero(neg)
  ELSE IF m = Two53
  THEN IF q + 1 > 971 THEN Infinity(neg) ELSE Shortest(neg, Two52, q + 1)
  ELSE IF q > 971 THEN Infinity(neg)
  ELSE Shortest(neg, m, q)

ScaledN(n, q) == IF q < 0 THEN BigTimesPow2(n, -q) ELSE n
ScaledT(t, q) == IF q > 0 THEN BigTimesPow2(t, q) ELSE t

RoundedWith(neg, n, t, q) ==
  DoubleOf(neg, Mantissa(LongDivision(n, t, 16, <<>>), t), q)

Rounded(neg, n, t, q) == RoundedWith(neg, ScaledN(n, q), ScaledT(t, q), q)

\* how many of t * 2, ..., t * 2^7 are at most n
ExtraBits(n, t) ==
  Cardinality({k \in 1..7 : ~BigLess(n, BigTimes(t, Pow2Small(k)))})

\* a binary exponent that is at most 52 below the logarithm of a decimal
\* with the decimal exponent ex, and at most 6 further below
ExponentBelow(ex) == ((ex * 3321928) \div 1000000) - 53

\* the binary exponent of the double nearest to n / t
BinaryExponent(n, t, qlow) ==
  Max(-1074, qlow + ExtraBits(ScaledN(n, qlow),
                              BigTimesPow2(ScaledT(t, qlow), 52)))

Nearest(neg, n, t, ex) ==
  Rounded(neg, n, t, BinaryExponent(n, t, ExponentBelow(ex)))

\* the digits d * 10^e as a quotient of naturals
Numerator(d, e) ==
  IF e >= 0 THEN BigTimesPow10(DigitsToBig(d), e) ELSE DigitsToBig(d)
Denominator(e) == IF e >= 0 THEN <<1>> ELSE BigTimesPow10(<<1>>, -e)

\* digits beyond the 800th do not change the nearest double as long as it is
\* known that they are not all zero
Significant(d) == IF Len(d) > 800 THEN SubSeq(d, 1, 800) \o <<1>> ELSE d
SignificantExp(d, e) == IF Len(d) > 800 THEN e + Len(d) - 801 ELSE e

\* the Number of the decimal d * 10^e, the digits d having no zero at either
\* end: a decimal of at most 15 digits within the normal range names its own
\* double; one of 10^309 or more is Infinity, one below 10^-324 is zero
NumberOfDigits(neg, d, e) ==
  IF Len(d) <= 15 /\ e + Len(d) - 1 >= -307 /\ e + Len(d) - 1 <= 307
  THEN JNumber(neg, FALSE, d, e)
  ELSE IF e + Len(d) - 1 >= 309 THEN Infinity(neg)
  ELSE IF e + Len(d) - 1 <= -325 THEN Zero(neg)
  ELSE Nearest(neg, Numerator(Significant(d), SignificantExp(d, e)),
               Denominator(SignificantExp(d, e)), e + Len(d) - 1)

NumberFrom(neg, d, e, nz) ==
  IF nz = {} THEN Zero(neg)
  ELSE NumberOfDigits(neg, SubSeq(d, Least(nz), Greatest(nz)),
                      e + Len(d) - Greatest(nz))

\* the Number JSON.parse gives for the decimal (-1)^neg * d * 10^e
Number(neg, d, e) == NumberFrom(neg, d, e, {k \in 1..Len(d) : d[k] # 0})

\* the decimal digits of a natural number of TLC
RECURSIVE IntDigits(_, _)
IntDigits(m, acc) ==
  IF m = 0 THEN acc ELSE IntDigits(m \div 10, <<m % 10>> \o acc)

\* the Number m * 10^e of a numeric literal of the source
JNum(m, e) == Number(m < 0, IntDigits(IF m < 0 THEN -m ELSE m, <<>>), e)

(***************************************************************************)
(* The grammar of JSON.                                                    *)
(***************************************************************************)
\* the position after the white space that starts at i
SkipWs(s, i) == ScanWhile(s, i, JsonWhiteSpace)

\* the position after the run of digits that starts at i
ScanDigits(s, i) == ScanWhile(s, i, Digits)

\* the digits s[i..j-1]
DigitsIn(s, i, j) == [k \in 1..(j - i) |-> DigitVal(s[i + k - 1])]

\* the value of the digits s[i..j-1], read after the value acc
RECURSIVE DigitsVal(_, _, _, _)
DigitsVal(s, i, j, acc) ==
  IF i >= j THEN acc ELSE DigitsVal(s, i + 1, j, acc * 10 + DigitVal(s[i]))

\* the value of the exponent digits s[z..j-1], of which the first is not 0:
\* an exponent of more than seven digits is beyond every double, and 10^7
\* stands for it
ExponentVal(s, z, j) ==
  IF j - z > 7 THEN 10000000 ELSE DigitsVal(s, z, j, 0)

\* number = -? (0 | [1-9][0-9]*) (. [0-9]+)? ([eE] [+-]? [0-9]+)?
\* the value, the digits of the parts being s[p0..intEnd-1] (integer),
\* s[intEnd+1..fracEnd-1] (fraction) and s[e0..expEnd-1] (exponent)
NumberValue(s, i, p0, intEnd, fracEnd, e0, expEnd) ==
  Parsed(Number(s[i] = "-",
                DigitsIn(s, p0, intEnd) \o DigitsIn(s, intEnd + 1, fracEnd),
                (IF CharAt(s, e0 - 1) = "-" THEN -1 ELSE 1)
                  * ExponentVal(s, Least({ScanWhile(s, e0, {"0"}), expEnd}),
                                expEnd)
                  - (IF fracEnd > intEnd THEN fracEnd - intEnd - 1 ELSE 0)),
         expEnd)

\* the exponent digits from e0 on, of which there must be one
NumberExpDigits(s, i, p0, intEnd, fracEnd, e0) ==
  IF CharAt(s, e0) \notin Digits THEN SyntaxError
  ELSE NumberValue(s, i, p0, intEnd, fracEnd, e0, ScanDigits(s, e0))

\* the optional exponent at fracEnd
NumberExp(s, i, p0, intEnd, fracEnd) ==
  IF CharAt(s, fracEnd) \in {"e", "E"}
  THEN NumberExpDigits(s, i, p0, intEnd, fracEnd,
                       IF CharAt(s, fracEnd + 1) \in {"+", "-"}
                       THEN fracEnd + 2 ELSE fracEnd + 1)
  ELSE NumberValue(s, i, p0, intEnd, fracEnd, fracEnd, fracEnd)

\* the optional fraction at intEnd, of which there must be one digit
NumberFrac(s, i, p0, intEnd) ==
  IF CharAt(s, intEnd) = "."
  THEN IF CharAt(s, intEnd + 1) \notin Digits THEN SyntaxError
       ELSE NumberExp(s, i, p0, intEnd, ScanDigits(s, intEnd + 1))
  ELSE NumberExp(s, i, p0, intEnd, intEnd)

\* the integer part at p0: a single 0, or digits that do not start with 0
NumberInt(s, i, p0) ==
  IF CharAt(s, p0) \notin Digits THEN SyntaxError
  ELSE NumberFrac(s, i, p0,
                  IF s[p0] = "0" THEN p0 + 1 ELSE ScanDigits(s, p0))

ParseNumber(s, i) == NumberInt(s, i, IF s[i] = "-" THEN i + 1 ELSE i)

\* the characters that may not stand in a JSON string: the code points below
\* U+0020
ControlChars ==
  {"\n", "\t", "\r", "\f",
   "U+0000", "U+0001", "U+0002", "U+0003", "U+0004", "U+0005", "U+0006",
   "U+0007", "U+0008", "U+0009", "U+000A", "U+000B", "U+000C", "U+000D",
   "U+000E", "U+000F", "U+0010", "U+0011", "U+0012", "U+0013", "U+0014",
   "U+0015", "U+0016", "U+0017", "U+0018", "U+0019", "U+001A", "U+001B",
   "U+001C", "U+001D", "U+001E", "U+001F"}

HexDigits ==
  Digits \cup {"a", "b", "c", "d", "e", "f", "A", "B", "C", "D", "E", "F"}

HexVal(c) ==
  CASE c \in Digits -> DigitVal(c)
    [] c \in {"a", "A"} -> 10 [] c \in {"b", "B"} -> 11
    [] c \in {"c", "C"} -> 12 [] c \in {"d", "D"} -> 13
    [] c \in {"e", "E"} -> 14 [] c \in {"f", "F"} -> 15

UpperHex ==
  <<"0", "1", "2", "3", "4", "5", "6", "7", "8", "9",
    "A", "B", "C", "D", "E", "F">>

\* the characters U+0020 to U+007E
Ascii ==
  <<" ", "!", "\"", "#", "$", "%", "&", "'", "(", ")", "*", "+", ",", "-",
    ".", "/", "0", "1", "2", "3", "4", "5", "6", "7", "8", "9", ":", ";",
    "<", "=", ">", "?", "@", "A", "B", "C", "D", "E", "F", "G", "H", "I",
    "J", "K", "L", "M", "N", "O", "P", "Q", "R", "S", "T", "U", "V", "W",
    "X", "Y", "Z", "[", "\\", "]", "^", "_", BT, "a", "b", "c", "d", "e",
    "f", "g", "h", "i", "j", "k", "l", "m", "n", "o", "p", "q", "r", "s",
    "t", "u", "v", "w", "x", "y", "z", "{", "|", "}", "~">>

\* the name U+XXXX of the code point n
CodePointName(n) ==
  "U+" \o (IF n >= 1048576 THEN "10"
           ELSE IF n >= 65536 THEN UpperHex[(n \div 65536) + 1] ELSE "")
       \o UpperHex[((n \div 4096) % 16) + 1]
       \o UpperHex[((n \div 256) % 16) + 1]
       \o UpperHex[((n \div 16) % 16) + 1] \o UpperHex[(n % 16) + 1]

\* the character with the code point n
CodePointChar(n) ==
  CASE n = 9 -> "\t" [] n = 10 -> "\n" [] n = 12 -> "\f" [] n = 13 -> "\r"
    [] n >= 32 /\ n <= 126 -> Ascii[n - 31]
    [] OTHER -> CodePointName(n)

\* the four hexadecimal digits at k
IsHex4(s, k) == k + 3 <= Len(s) /\ \A j \in k..(k + 3) : s[j] \in HexDigits

Hex4(s, k) ==
  ((HexVal(s[k]) * 16 + HexVal(s[k + 1])) * 16 + HexVal(s[k + 2])) * 16
    + HexVal(s[k + 3])

\* the length of the escape sequence whose backslash is at k, 0 when there
\* is no such escape sequence
EscapeLen(s, k) ==
  IF CharAt(s, k + 1) \in {"\"", "\\", "/", "b", "f", "n", "r", "t"} THEN 2
  ELSE IF CharAt(s, k + 1) = "u" /\ IsHex4(s, k + 2) THEN 6
  ELSE 0

\* the number of backslashes right before k, from i on
RunBefore(s, i, k) ==
  IF k - 1 < i \/ s[k - 1] # "\\" THEN 0
  ELSE k - 1 - Greatest({j \in i..(k - 1) : s[j] # "\\"} \cup {i - 1})

\* the backslash at k starts an escape sequence: the backslashes before it
\* pair up
Escaping(s, i, k) ==
  k >= i /\ k <= Len(s) /\ s[k] = "\\" /\ RunBefore(s, i, k) % 2 = 0

\* a \uXXXX escape at k that is a high, or a low, surrogate
SurrogateAt(s, i, k, from, to) ==
  /\ Escaping(s, i, k)
  /\ CharAt(s, k + 1) = "u"
  /\ IsHex4(s, k + 2)
  /\ Hex4(s, k + 2) >= from
  /\ Hex4(s, k + 2) <= to

\* the escape at k is the second half of a surrogate pair
PairedLow(s, i, k) ==
  SurrogateAt(s, i, k, 56320, 57343) /\ SurrogateAt(s, i, k - 6, 55296, 56319)

\* the character of the escape sequence whose backslash is at k
EscapeChar(s, i, k) ==
  CASE s[k + 1] = "b" -> "U+0008"
    [] s[k + 1] = "f" -> "\f"
    [] s[k + 1] = "n" -> "\n"
    [] s[k + 1] = "r" -> "\r"
    [] s[k + 1] = "t" -> "\t"
    [] s[k + 1] = "u" ->
         IF PairedLow(s, i, k + 6)
         THEN CodePointChar(65536 + (Hex4(s, k + 2) - 55296) * 1024
                              + (Hex4(s, k + 8) - 56320))
         ELSE CodePointChar(Hex4(s, k + 2))
    [] OTHER -> s[k + 1]

\* the place k of a string that starts at i lies inside an escape sequence,
\* after its backslash, or is the second half of a surrogate pair
Covered(s, i, k) ==
  \/ Escaping(s, i, k - 1)
  \/ \E j \in (k - 5)..(k - 2) : Escaping(s, i, j) /\ s[j + 1] = "u"
  \/ PairedLow(s, i, k)

\* the characters of the places of a string that starts at i
CharsAt(s, i, places) ==
  [n \in 1..Len(places) |->
     IF s[places[n]] = "\\" THEN EscapeChar(s, i, places[n])
     ELSE s[places[n]]]

\* the characters of the string s[i..q-1], its escape sequences replaced
StringChars(s, i, q) ==
  IF \A k \in i..(q - 1) : s[k] # "\\" THEN SubSeq(s, i, q - 1)
  ELSE CharsAt(s, i, SelectSeq([k \in 1..(q - i) |-> i + k - 1],
                               LAMBDA k : ~Covered(s, i, k)))

\* the content s[i..q-1] has no control character and no backslash other
\* than those of escape sequences
ValidContent(s, i, q) ==
  \A k \in i..(q - 1) : /\ s[k] \notin ControlChars
                         /\ Escaping(s, i, k) => EscapeLen(s, k) # 0

\* the first of the quotes that are not escaped, when the content before it
\* is valid
ClosingQuote(s, i, quotes) ==
  IF quotes = {} THEN 0
  ELSE IF ValidContent(s, i, Least(quotes)) THEN Least(quotes)
  ELSE 0

\* the closing quote of a string with escape sequences
EscapedStringEnd(s, i) ==
  ClosingQuote(s, i, {k \in i..Len(s) :
                        s[k] = "\"" /\ RunBefore(s, i, k) % 2 = 0})

\* the position of the closing quote of the string whose first character is
\* at i, decided at the first quote, backslash or control character; 0 for
\* a string that is not terminated or not valid
FirstStop(s, i, stops) ==
  IF stops = {} THEN 0
  ELSE IF s[Least(stops)] = "\"" THEN Least(stops)
  ELSE IF s[Least(stops)] = "\\" THEN EscapedStringEnd(s, i)
  ELSE 0

StringEnd(s, i) ==
  FirstStop(s, i, {k \in i..Len(s) : s[k] \in ControlChars \cup {"\"", "\\"}})

\* the string that starts at the quote at i and ends at the quote at q
StringTo(s, i, q) ==
  IF q = 0 THEN SyntaxError
  ELSE Parsed(JStr(StringChars(s, i + 1, q)), q + 1)

ParseString(s, i) == StringTo(s, i, StringEnd(s, i + 1))

ParseLiteral(s, i, word, v) ==
  IF MatchAt(s, word, i) THEN Parsed(v, i + Len(word)) ELSE SyntaxError

\* the object o with key k set to v (a repeated key keeps the last value)
Put(o, k, v) ==
  [x \in (DOMAIN o) \cup {k} |-> IF x = k THEN v ELSE o[x]]

RECURSIVE ParseValue(_, _)
RECURSIVE ParseElements(_, _, _)
RECURSIVE ParseMembers(_, _, _)

\* after the element r of an array, at j: "," and more elements, or "]"
ElementsAfter(s, j, acc, r) ==
  IF CharAt(s, j) = "," THEN ParseElements(s, j + 1, Append(acc, r.v))
  ELSE IF CharAt(s, j) = "]" THEN Parsed(JArr(Append(acc, r.v)), j + 1)
  ELSE SyntaxError

ElementParsed(s, acc, r) ==
  IF ~r.ok THEN SyntaxError ELSE ElementsAfter(s, SkipWs(s, r.next), acc, r)

\* the elements of an array after "[" or ",": value, then "," or "]"
ParseElements(s, i, acc) == ElementParsed(s, acc, ParseValue(s, i))

\* after a member of an object, at n, o being the members read:  "," and
\* more members, or "}"
MembersAfter(s, n, o) ==
  IF CharAt(s, n) = "," THEN ParseMembers(s, n + 1, o)
  ELSE IF CharAt(s, n) = "}" THEN Parsed(JObj(o), n + 1)
  ELSE SyntaxError

MemberValue(s, acc, k, r) ==
  IF ~r.ok THEN SyntaxError
  ELSE MembersAfter(s, SkipWs(s, r.next), Put(acc, k.v.s, r.v))

\* after the key k of a member, at c: ":" and the value
MemberColon(s, c, acc, k) ==
  IF CharAt(s, c) # ":" THEN SyntaxError
  ELSE MemberValue(s, acc, k, ParseValue(s, c + 1))

MemberKey(s, acc, k) ==
  IF ~k.ok THEN SyntaxError ELSE MemberColon(s, SkipWs(s, k.next), acc, k)

MemberAt(s, j, acc) ==
  IF CharAt(s, j) # "\"" THEN SyntaxError
  ELSE MemberKey(s, acc, ParseString(s, j))

\* the members of an object after "{" or ",": string, ":", value, then ","
\* or "}"
ParseMembers(s, i, acc) == MemberAt(s, SkipWs(s, i), acc)

\* an object or an array whose opening bracket is before the position j:
\* empty when the closing bracket is at j
ObjectAt(s, j) ==
  IF CharAt(s, j) = "}" THEN Parsed(JObj(<<>>), j + 1)
  ELSE ParseMembers(s, j, <<>>)

ArrayAt(s, j) ==
  IF CharAt(s, j) = "]" THEN Parsed(JArr(<<>>), j + 1)
  ELSE ParseElements(s, j, <<>>)

\* the value whose first character c is at j
ValueAt(s, j, c) ==
  CASE c = "{" -> ObjectAt(s, SkipWs(s, j + 1))
    [] c = "[" -> ArrayAt(s, SkipWs(s, j + 1))
    [] c = "\"" -> ParseString(s, j)
    [] c = "t" -> ParseLiteral(s, j, <<"t","r","u","e">>, JBool(TRUE))
    [] c = "f" -> ParseLiteral(s, j, <<"f","a","l","s","e">>, JBool(FALSE))
    [] c = "n" -> ParseLiteral(s, j, <<"n","u","l","l">>, JNull)
    [] c \in Digits \cup {"-"} -> ParseNumber(s, j)
    [] OTHER -> SyntaxError

ValueFrom(s, j) == ValueAt(s, j, CharAt(s, j))

ParseValue(s, i) == ValueFrom(s, SkipWs(s, i))

\* the whole text is one value and white space
WholeValue(text, r) ==
  IF r.ok /\ SkipWs(text, r.next) > Len(text)
  THEN Return(r.v)
  ELSE Throw("SyntaxError")

\* JSON.parse(text): returns the value, or throws a SyntaxError
JSON_parse(text) == WholeValue(text, ParseValue(text, 1))

(***************************************************************************)
(* geminiService.ts: the extractor and the live paths of the two flows     *)
(* that use it, as functions of how the external model call completed.     *)
(***************************************************************************)
\* try { return JSON.parse(...) } catch (e) { return null }
CatchToNull(c) == IF c.kind = "throw" THEN Return(JNull) ELSE c

\* the match extractJson uses: tagged || untagged
FirstFound(tagged, untagged) == IF tagged.found THEN tagged ELSE untagged

\* if (jsonMatch) { try ... catch ... } return null
ParseMatch(jsonMatch) ==
  IF jsonMatch.found THEN CatchToNull(JSON_parse(jsonMatch.group))
  ELSE Return(JNull)

\* the same without the try/catch: a SyntaxError escapes
ParseMatch_NoCatch(jsonMatch) ==
  IF jsonMatch.found THEN JSON_parse(jsonMatch.group) ELSE Return(JNull)

\* extractJson without its try/catch
extractJson_NoCatch(text) ==
  ParseMatch_NoCatch(FirstFound(MatchTagged(text), MatchUntagged(text)))

\* extractJson trying the untagged pattern before the tagged one
extractJson_UntaggedFirst(text) ==
  ParseMatch(FirstFound(MatchUntagged(text), MatchTagged(text)))

\* extractJson: the tagged pattern, else the untagged one; a SyntaxError of
\* JSON.parse is caught and null returned
extractJson(text) ==
  ParseMatch(FirstFound(MatchTagged(text), MatchUntagged(text)))

\* a reply of the external model: response.text may be undefined, and
\* groundingChunks is a sequence of chunks [hasWeb, uri, title]
Response(hasText, text, chunks) ==
  [hasText |-> hasText, text |-> text, chunks |-> chunks]

\* response.text || ""
ResponseText(response) ==
  IF response.hasText THEN response.text ELSE <<>>

\* the mapping without the filter: every chunk gives a citation
RECURSIVE mappedSources_NoFilter(_)
mappedSources_NoFilter(chunks) ==
  IF chunks = <<>> THEN <<>>
  ELSE <<[uri |-> Head(chunks).uri, title |-> Head(chunks).title]>>
       \o mappedSources_NoFilter(Tail(chunks))

\* sources.map(chunk => chunk.web).filter(web => web !== undefined)
\*        .map(web => ({uri: web.uri, title: web.title}))
RECURSIVE mappedSources(_)
mappedSources(chunks) ==
  IF chunks = <<>> THEN <<>>
  ELSE IF Head(chunks).hasWeb
       THEN <<[uri |-> Head(chunks).uri, title |-> Head(chunks).title]>>
            \o mappedSources(Tail(chunks))
       ELSE mappedSources(Tail(chunks))

\* text.replace(...).trim(), the narrative of a live forecast
NarrativeOf(text) == Trim(StripJsonBlock(text))

\* return {data: jsonData, rawText: ..., sources: mappedSources}; a throw
\* inside the try block is caught, logged and thrown again
FetchResult(response, text, jsonData) ==
  IF jsonData.kind = "throw" THEN Throw(jsonData.e)
  ELSE Return([data |-> jsonData.v,
               rawText |-> NarrativeOf(text),
               sources |-> mappedSources(response.chunks)])

FetchFromText(response, text) ==
  FetchResult(response, text, extractJson(text))

\* fetchSpaceWeather with a catch that resolves to an empty result instead
\* of throwing again
fetchSpaceWeatherLive_Swallow(outcome) ==
  IF outcome.kind = "throw"
  THEN Return([data |-> JNull, rawText |-> <<>>, sources |-> <<>>])
  ELSE FetchFromText(outcome.v, ResponseText(outcome.v))

\* the try/catch of fetchSpaceWeather around the awaited generateContent:
\* a failure of the call, or of anything in the try block, is logged and
\* thrown again
fetchSpaceWeatherLive(outcome) ==
  IF outcome.kind = "throw" THEN Throw(outcome.e)
  ELSE FetchFromText(outcome.v, ResponseText(outcome.v))

\* analyzeSkyPhoto using the extractor alone, the whole reply never parsed
DirectOrExtract_ExtractOnly(text, direct) == CatchToNull(extractJson(text))

\* try { return JSON.parse(text) } catch (e) { return extractJson(text) },
\* inside the outer try whose catch returns null
DirectOrExtract(text, direct) ==
  IF direct.kind = "return" THEN direct ELSE CatchToNull(extractJson(text))

AnalyzeFromText(text) == DirectOrExtract(text, JSON_parse(text))

\* analyzeSkyPhoto without the inner try/catch: a reply that is not JSON as
\* a whole goes to the outer catch without the extractor being tried, and
\* the outer catch throws again as fetchSpaceWeather's does
analyzeSkyPhotoLive_Rethrow(outcome) ==
  IF outcome.kind = "throw" THEN Return(JNull)
  ELSE JSON_parse(ResponseText(outcome.v))

\* the try/catch of analyzeSkyPhoto: the whole reply is parsed, and the
\* extractor is used when that throws; any other failure gives null
analyzeSkyPhotoLive(outcome) ==
  IF outcome.kind = "throw" THEN Return(JNull)
  ELSE AnalyzeFromText(ResponseText(outcome.v))

(***************************************************************************)
(* The PhotoAnalysis interface of types.ts.                                *)
(***************************************************************************)
\* the property names of PhotoAnalysis and of its recommendedSettings
PhotoAnalysisKey ==
  [cloudCover |-> <<"c","l","o","u","d","C","o","v","e","r">>,
   darknessRating |->
     <<"d","a","r","k","n","e","s","s","R","a","t","i","n","g">>,
   recommendedSettings |->
     <<"r","e","c","o","m","m","e","n","d","e","d","S","e","t","t","i","n","g","s">>,
   iso |-> <<"i","s","o">>,
   shutterSpeed |-> <<"s","h","u","t","t","e","r","S","p","e","e","d">>,
   aperture |-> <<"a","p","e","r","t","u","r","e">>,
   focus |-> <<"f","o","c","u","s">>,
   checklist |-> <<"c","h","e","c","k","l","i","s","t">>,
   feedback |-> <<"f","e","e","d","b","a","c","k">>]

IsStr(v) == v.t = "str"

HasStr(v, k) == k \in DOMAIN v.o /\ IsStr(v.o[k])

\* v is a record of the PhotoAnalysis shape
IsPhotoAnalysis(v) ==
  /\ v.t = "obj"
  /\ HasStr(v, PhotoAnalysisKey.cloudCover)
  /\ HasStr(v, PhotoAnalysisKey.darknessRating)
  /\ PhotoAnalysisKey.recommendedSettings \in DOMAIN v.o
  /\ v.o[PhotoAnalysisKey.recommendedSettings].t = "obj"
  /\ \A k \in {PhotoAnalysisKey.iso, PhotoAnalysisKey.shutterSpeed,
              PhotoAnalysisKey.aperture, PhotoAnalysisKey.focus} :
        HasStr(v.o[PhotoAnalysisKey.recommendedSettings], k)
  /\ PhotoAnalysisKey.checklist \in DOMAIN v.o
  /\ v.o[PhotoAnalysisKey.checklist].t = "arr"
  /\ \A n \in DOMAIN v.o[PhotoAnalysisKey.checklist].a :
        IsStr(v.o[PhotoAnalysisKey.checklist].a[n])
  /\ HasStr(v, PhotoAnalysisKey.feedback)

(***************************************************************************)
(* The WeatherData interface (types.ts) and the demonstration data of the  *)
(* fallback provider.  A character outside printable ASCII is the element  *)
(* "U+" followed by its code point.                                        *)
(***************************************************************************)
\* the property names of WeatherData and of the records nested in it
WeatherDataKey ==
  [kpIndex |-> <<"k","p","I","n","d","e","x">>,
   solarWindSpeed |->
     <<"s","o","l","a","r","W","i","n","d","S","p","e","e","d">>,
   solarWindDensity |->
     <<"s","o","l","a","r","W","i","n","d","D","e","n","s","i","t","y">>,
   bz |-> <<"b","z">>,
   probabilityScore |->
     <<"p","r","o","b","a","b","i","l","i","t","y","S","c","o","r","e">>,
   summary |-> <<"s","u","m","m","a","r","y">>,
   visibilityChance |->
     <<"v","i","s","i","b","i","l","i","t","y","C","h","a","n","c","e">>,
   tonightsWindow |->
     <<"t","o","n","i","g","h","t","s","W","i","n","d","o","w">>,
   nearestDetection |->
     <<"n","e","a","r","e","s","t","D","e","t","e","c","t","i","o","n">>,
   location |-> <<"l","o","c","a","t","i","o","n">>,
   status |-> <<"s","t","a","t","u","s">>,
   solarFlare |-> <<"s","o","l","a","r","F","l","a","r","e">>,
   class |-> <<"c","l","a","s","s">>,
   time |-> <<"t","i","m","e">>,
   impact |-> <<"i","m","p","a","c","t">>,
   region |-> <<"r","e","g","i","o","n">>,
   eta |-> <<"e","t","a">>,
   forecast |-> <<"f","o","r","e","c","a","s","t">>,
   kp |-> <<"k","p">>,
   timestamp |-> <<"t","i","m","e","s","t","a","m","p">>,
   locationName |-> <<"l","o","c","a","t","i","o","n","N","a","m","e">>]

\* an object literal: the members in order, a repeated key keeping the last
ObjectOf(ms) ==
  JObj([key \in {ms[i][1] : i \in 1..Len(ms)} |->
          ms[Greatest({i \in 1..Len(ms) : ms[i][1] = key})][2]])

IsNum(v) == v.t = "num"

HasNum(v, k) == k \in DOMAIN v.o /\ IsNum(v.o[k])

\* an optional member of type string
OptStr(v, k) == k \in DOMAIN v.o => IsStr(v.o[k])

\* v is a record of the WeatherData shape: the required members with their
\* types, and the optional ones, when present, with theirs
IsWeatherData(v) ==
  /\ v.t = "obj"
  /\ \A k \in {WeatherDataKey.kpIndex, WeatherDataKey.solarWindSpeed,
              WeatherDataKey.solarWindDensity, WeatherDataKey.bz,
              WeatherDataKey.probabilityScore} : HasNum(v, k)
  /\ \A k \in {WeatherDataKey.summary, WeatherDataKey.visibilityChance,
              WeatherDataKey.tonightsWindow, WeatherDataKey.timestamp,
              WeatherDataKey.locationName} : HasStr(v, k)
  /\ WeatherDataKey.nearestDetection \in DOMAIN v.o
       => /\ v.o[WeatherDataKey.nearestDetection].t = "obj"
          /\ HasStr(v.o[WeatherDataKey.nearestDetection],
                    WeatherDataKey.location)
          /\ HasStr(v.o[WeatherDataKey.nearestDetection],
                    WeatherDataKey.status)
          /\ OptStr(v.o[WeatherDataKey.nearestDetection],
                    <<"c","o","o","r","d","i","n","a","t","e","s">>)
  /\ WeatherDataKey.solarFlare \in DOMAIN v.o
       => /\ v.o[WeatherDataKey.solarFlare].t = "obj"
          /\ \A k \in {WeatherDataKey.class, WeatherDataKey.time,
                      WeatherDataKey.impact} :
                HasStr(v.o[WeatherDataKey.solarFlare], k)
          /\ \A k \in {WeatherDataKey.region, WeatherDataKey.eta} :
                OptStr(v.o[WeatherDataKey.solarFlare], k)
  /\ WeatherDataKey.forecast \in DOMAIN v.o
  /\ v.o[WeatherDataKey.forecast].t = "arr"
  /\ \A n \in DOMAIN v.o[WeatherDataKey.forecast].a :
        /\ v.o[WeatherDataKey.forecast].a[n].t = "obj"
        /\ HasStr(v.o[WeatherDataKey.forecast].a[n], WeatherDataKey.time)
        /\ HasNum(v.o[WeatherDataKey.forecast].a[n], WeatherDataKey.kp)

MOCK_SUMMARY ==
  <<"U+00E2","U+0161","U+00A0","U+00EF","U+00B8"," ","D","E","M","O"," ",
    "M","O","D","E",":"," ","A","P","I"," ","K","e","y"," ","n","o","t",
    " ","d","e","t","e","c","t","e","d","."," ","D","i","s","p","l","a",
    "y","i","n","g"," ","s","i","m","u","l","a","t","e","d"," ","s","t",
    "o","r","m"," ","c","o","n","d","i","t","i","o","n","s","."," ","\n",
    "\n","A"," ","m","o","d","e","r","a","t","e"," ","g","e","o","m","a",
    "g","n","e","t","i","c"," ","s","t","o","r","m"," ","(","G","2",")",
    " ","i","s"," ","i","n"," ","p","r","o","g","r","e","s","s"," ","d",
    "u","e"," ","t","o"," ","a"," ","C","o","r","o","n","a","l"," ","H",
    "o","l","e"," ","H","i","g","h"," ","S","p","e","e","d"," ","S","t",
    "r","e","a","m"," ","(","C","H"," ","H","S","S",")","."," ","H","i",
    "g","h","-","l","a","t","i","t","u","d","e"," ","o","b","s","e","r",
    "v","e","r","s"," ","s","h","o","u","l","d"," ","h","a","v","e"," ",
    "e","x","c","e","l","l","e","n","t"," ","v","i","s","i","b","i","l",
    "i","t","y",".">>

\* new Date().toISOString() when the module is loaded, the clock of the
\* model starting at that instant
MODULE_LOADED_AT ==
  <<"1","9","7","0","-","0","1","-","0","1","T","0","0",":","0","0",":",
    "0","0",".","0","0","0","Z">>

ForecastPoint(time, kp) ==
  ObjectOf(<< <<WeatherDataKey.time, JStr(time)>>,
              <<WeatherDataKey.kp, JNum(kp, 0)>> >>)

MOCK_WEATHER_DATA ==
  ObjectOf(<<
    <<WeatherDataKey.kpIndex, JNum(533, -2)>>,
    <<WeatherDataKey.solarWindSpeed, JNum(520, 0)>>,
    <<WeatherDataKey.solarWindDensity, JNum(125, -1)>>,
    <<WeatherDataKey.bz, JNum(-62, -1)>>,
    <<WeatherDataKey.probabilityScore, JNum(78, 0)>>,
    <<WeatherDataKey.summary, JStr(MOCK_SUMMARY)>>,
    <<WeatherDataKey.visibilityChance, JStr(<<"H","i","g","h">>)>>,
    <<WeatherDataKey.tonightsWindow,
      JStr(<<"2","2",":","0","0"," ","-"," ","0","2",":","0","0"," ","L","o","c","a",
            "l">>)>>,
    <<WeatherDataKey.nearestDetection, ObjectOf(<<
      <<WeatherDataKey.location,
        JStr(<<"T","r","o","m","s","U+00C3","U+00B8",","," ","N","o","r","w","a","y">>)>>,
      <<WeatherDataKey.status,
        JStr(<<"V","i","s","u","a","l"," ","S","i","g","h","t","i","n","g"," ","C","o",
            "n","f","i","r","m","e","d">>)>> >>)>>,
    <<WeatherDataKey.solarFlare, ObjectOf(<<
      <<WeatherDataKey.class, JStr(<<"M","2",".","4">>)>>,
      <<WeatherDataKey.time, JStr(<<"1","4",":","3","0"," ","U","T","C">>)>>,
      <<WeatherDataKey.impact,
        JStr(<<"M","i","n","o","r"," ","R","a","d","i","o"," ","B","l","a","c","k","o",
            "u","t"," ","(","R","1",")">>)>>,
      <<WeatherDataKey.region, JStr(<<"A","R","3","6","6","4">>)>>,
      <<WeatherDataKey.eta,
        JStr(<<"T","o","m","o","r","r","o","w"," ","0","8",":","0","0"," ","U","T","C">>)>> >>)>>,
    <<WeatherDataKey.forecast, JArr(<<
      ForecastPoint(<<"N","o","w">>, 5),
      ForecastPoint(<<"+","1","h">>, 6),
      ForecastPoint(<<"+","2","h">>, 5),
      ForecastPoint(<<"+","3","h">>, 4),
      ForecastPoint(<<"+","4","h">>, 3),
      ForecastPoint(<<"+","5","h">>, 3) >>)>>,
    <<WeatherDataKey.timestamp, JStr(MODULE_LOADED_AT)>>,
    <<WeatherDataKey.locationName,
      JStr(<<"S","i","m","u","l","a","t","e","d"," ","S","e","c","t","o","r"," ","(",
            "D","e","m","o",")">>)>> >>)

MOCK_SOURCE_URI ==
  <<"h","t","t","p","s",":","/","/","w","w","w",".","s","w","p","c",".",
    "n","o","a","a",".","g","o","v","/">>
MOCK_SOURCE_TITLE ==
  <<"N","O","A","A"," ","S","p","a","c","e"," ","W","e","a","t","h","e",
    "r"," ","(","S","i","m","u","l","a","t","e","d",")">>

\* the delay of the timer of the fallback forecast, in milliseconds
FALLBACK_FETCH_DELAY == 1500

\* what the timer of the fallback forecast resolves the promise with
fetchSpaceWeatherFallback ==
  Return([data |-> MOCK_WEATHER_DATA,
          rawText |-> MOCK_WEATHER_DATA.o[WeatherDataKey.summary].s,
          sources |-> <<[uri |-> MOCK_SOURCE_URI,
                         title |-> MOCK_SOURCE_TITLE]>>])

\* a timer that runs its callback without waiting
TimerDue_Immediate(start, delay) == start

\* setTimeout(f, delay) called at the instant start: f does not run before
TimerDue(start, delay) == start + delay

\* the demonstration analysis of the fallback provider
MOCK_PHOTO_ANALYSIS ==
  ObjectOf(<<
    <<PhotoAnalysisKey.cloudCover,
      JStr(<<"P","a","r","t","l","y"," ","C","l","o","u","d","y"," ","(","S","i","m",
            "u","l","a","t","e","d",")">>)>>,
    <<PhotoAnalysisKey.darknessRating,
      JStr(<<"B","o","r","t","l","e"," ","4"," ","(","R","u","r","a","l"," ","T","r",
            "a","n","s","i","t","i","o","n",")">>)>>,
    <<PhotoAnalysisKey.recommendedSettings, ObjectOf(<<
      <<PhotoAnalysisKey.iso,
        JStr(<<"1","6","0","0"," ","-"," ","3","2","0","0">>)>>,
      <<PhotoAnalysisKey.shutterSpeed,
        JStr(<<"8","s"," ","-"," ","1","5","s">>)>>,
      <<PhotoAnalysisKey.aperture,
        JStr(<<"f","/","2",".","8"," ","o","r"," ","l","o","w","e","r">>)>>,
      <<PhotoAnalysisKey.focus,
        JStr(<<"I","n","f","i","n","i","t","y"," ","(","M","a","n","u","a","l",")">>)>> >>)>>,
    <<PhotoAnalysisKey.checklist, JArr(<<
      JStr(<<"U","s","e"," ","a"," ","t","r","i","p","o","d"," ","(","M","a","n","d",
             "a","t","o","r","y",")">>),
      JStr(<<"S","e","t"," ","2","s"," ","t","i","m","e","r"," ","t","o"," ","a","v",
             "o","i","d"," ","s","h","a","k","e">>),
      JStr(<<"S","h","o","o","t"," ","i","n"," ","R","A","W"," ","f","o","r","m","a",
             "t">>) >>)>>,
    <<PhotoAnalysisKey.feedback,
      JStr(<<"D","e","m","o"," ","M","o","d","e",":"," ","G","r","e","a","t"," ","c",
            "o","n","d","i","t","i","o","n","s"," ","s","i","m","u","l","a","t","e",
            "d","!"," ","L","o","o","k"," ","f","o","r"," ","g","a","p","s"," ","i",
            "n"," ","t","h","e"," ","c","l","o","u","d","s"," ","t","o"," ","t","h",
            "e"," ","N","o","r","t","h",".">>)>> >>)

\* the delay of the timer of the fallback analysis, in milliseconds
FALLBACK_PHOTO_DELAY == 2000

\* a fallback analysis that resolves to null
analyzeSkyPhotoFallback_Null == Return(JNull)

\* what the timer of the fallback analysis resolves the promise with
analyzeSkyPhotoFallback == Return(MOCK_PHOTO_ANALYSIS)

(***************************************************************************)
(* The chat service.                                                       *)
(***************************************************************************)
DEMO_MODE_REPLY ==
  <<"I"," ","a","m"," ","c","u","r","r","e","n","t","l","y"," ","i","n",
    " ","D","e","m","o"," ","M","o","d","e"," ","b","e","c","a","u","s",
    "e"," ","t","h","e"," ","A","P","I"," ","K","e","y"," ","i","s"," ",
    "m","i","s","s","i","n","g","."," ","I"," ","c","a","n","n","o","t",
    " ","p","r","o","c","e","s","s"," ","l","i","v","e"," ","q","u","e",
    "r","i","e","s",","," ","b","u","t"," ","I"," ","c","a","n"," ","c",
    "o","n","f","i","r","m"," ","y","o","u","r"," ","s","y","s","t","e",
    "m","s"," ","a","r","e"," ","o","p","e","r","a","t","i","o","n","a",
    "l","!"," ","U+00F0","U+0178","U+0161","U+20AC">>

\* getAI() that builds a client whether or not there is a key
getAI_AlwaysClient(key) == [client |-> "GoogleGenAI"]

\* getAI(): the client, or null without an API key
getAI(key) == IF key THEN [client |-> "GoogleGenAI"] ELSE JNull

\* createChatSession(): a substitute handle without a client, else a chat of
\* the SDK, which keeps the history of the turns that succeeded
createChatSession(key) ==
  IF getAI(key) = JNull THEN [kind |-> "mock"]
  ELSE [kind |-> "live", history |-> <<>>]

\* the value undefined in the place of a text: result.text of a reply of the
\* external model that has no text (no character is the string "undefined")
Undefined == <<"undefined">>

\* a substitute handle that answers with the message it was sent
sendMessage_Echo(session, message, outcome) ==
  IF session.kind = "mock" THEN Return([text |-> message]) ELSE outcome

\* session.sendMessage({message}): the result, given what the external
\* model does with the message when the session is a live one
sendMessage(session, message, outcome) ==
  IF session.kind = "mock" THEN Return([text |-> DEMO_MODE_REPLY])
  ELSE outcome

\* a live chat that records the user message of a turn that failed
SessionAfter_KeepFailedTurn(session, message, outcome) ==
  IF session.kind = "mock" THEN session
  ELSE IF outcome.kind = "throw"
       THEN [session EXCEPT !.history =
               @ \o <<[role |-> "user", text |-> message]>>]
       ELSE [session EXCEPT !.history =
               @ \o <<[role |-> "user", text |-> message],
                      [role |-> "model", text |-> outcome.v.text]>>]

\* the session after sendMessage: a substitute handle has no state, a live
\* chat records the turn when the call succeeded
SessionAfter(session, message, outcome) ==
  IF session.kind = "mock" \/ outcome.kind = "throw" THEN session
  ELSE [session EXCEPT !.history =
          @ \o <<[role |-> "user", text |-> message],
                 [role |-> "model", text |-> outcome.v.text]>>]

(***************************************************************************)
(* ChatGuardian: the texts of the component.                               *)
(***************************************************************************)
GREETING ==
  <<"G","r","e","e","t","i","n","g","s",","," ","E","a","r","t","h","l",
    "i","n","g","!"," ","U+1F596"," ","I"," ","a","m"," ","G","l","a","r",
    "e","M","y","A","u","r","o","r","a","."," ","A","s","k"," ","m","e",
    " ","a","b","o","u","t"," ","s","o","l","a","r"," ","s","t","o","r",
    "m","s",","," ","s","u","r","v","i","v","a","l"," ","g","e","a","r",
    ","," ","o","r"," ","t","h","e"," ","s","c","i","e","n","c","e"," ",
    "o","f"," ","t","h","e"," ","l","i","g","h","t","s","!">>
COMM_LINK_DISRUPTED ==
  <<"C","o","m","m"," ","l","i","n","k"," ","d","i","s","r","u","p","t",
    "e","d","!"," ","S","t","a","t","i","c"," ","i","n"," ","t","h","e",
    " ","a","t","m","o","s","p","h","e","r","e",".",".","."," ","t","r",
    "y"," ","a","g","a","i","n",".">>

UNABLE_TO_FETCH ==
  <<"U","n","a","b","l","e"," ","t","o"," ","f","e","t","c","h"," ","s",
    "p","a","c","e"," ","w","e","a","t","h","e","r"," ","d","a","t","a",
    " ","a","t"," ","t","h","i","s"," ","m","o","m","e","n","t",".">>
LOCATION_DENIED ==
  <<"L","o","c","a","t","i","o","n"," ","a","c","c","e","s","s"," ","d",
    "e","n","i","e","d","."," ","U","s","i","n","g"," ","d","e","f","a",
    "u","l","t"," ","(","R","e","y","k","j","a","v","i","k",")",".">>
GEOLOCATION_NOT_SUPPORTED ==
  <<"G","e","o","l","o","c","a","t","i","o","n"," ","n","o","t"," ","s",
    "u","p","p","o","r","t","e","d",".">>

(***************************************************************************)
(* The replies the checks range over: every concatenation of at most       *)
(* MaxSegs segments.                                                       *)
(***************************************************************************)
SegProse == <<"R","e","p","o","r","t",":">>
SegNewline == <<"\n">>
SegSpace == <<" ", "U+00A0">>
SegFence == FENCE
SegTag == <<"j","s","o","n">>
\* the content of the block of the spec's example scenario
ExampleContent ==
  <<"{","\"","k","p","I","n","d","e","x","\"",":","5",",","\"","f","o","r",
    "e","c","a","s","t","\"",":","[","]","}">>
SegTaggedExample == FENCE_JSON_NL \o ExampleContent \o NL_FENCE
SegTaggedNumber == FENCE_JSON_NL \o <<"7">> \o NL_FENCE
SegTaggedBroken == FENCE_JSON_NL \o <<"{">> \o NL_FENCE
SegUntaggedArray == FENCE_NL \o <<"[","1",",","2","]">> \o NL_FENCE
SegUntaggedProse == FENCE_NL \o SegProse \o NL_FENCE
SegInlineTagged == FENCE_JSON \o <<" ","5">> \o FENCE
SegBareObject == <<"{","\"","k","p","\"",":","5","}">>

Segments ==
  {SegProse, SegNewline, SegSpace, SegFence, SegTag, SegTaggedExample,
   SegTaggedNumber, SegTaggedBroken, SegUntaggedArray, SegUntaggedProse,
   SegInlineTagged, SegBareObject}

RECURSIVE Flatten(_)
Flatten(ss) == IF ss = <<>> THEN <<>> ELSE Head(ss) \o Flatten(Tail(ss))

\* a reply that is a PhotoAnalysis record and nothing else
PhotoReply ==
  <<"{","\"","c","l","o","u","d","C","o","v","e","r","\"",":","\"","C","l",
    "e","a","r","\"",",","\"","d","a","r","k","n","e","s","s","R","a","t",
    "i","n","g","\"",":","\"","G","o","o","d","\"",",","\"","r","e","c","o",
    "m","m","e","n","d","e","d","S","e","t","t","i","n","g","s","\"",":",
    "{","\"","i","s","o","\"",":","\"","8","0","0","\"",",","\"","s","h",
    "u","t","t","e","r","S","p","e","e","d","\"",":","\"","8","s","\"",",",
    "\"","a","p","e","r","t","u","r","e","\"",":","\"","f","/","2","\"",",",
    "\"","f","o","c","u","s","\"",":","\"","M","a","n","u","a","l","\"","}",
    ",","\"","c","h","e","c","k","l","i","s","t","\"",":","[","\"","a","\"",
    ",","\"","b","\"",",","\"","c","\"","]",",","\"","f","e","e","d","b",
    "a","c","k","\"",":","\"","o","k","\"","}">>

(***************************************************************************)
(* The state.  pIn, pOp, pOut: an outcome of the external call, the        *)
(* service function applied to it and what that function gave.  apiKey:    *)
(* whether process.env.API_KEY is set.  now: the clock, in milliseconds.   *)
(* App: currentView, location, locationError, weatherData, rawText,        *)
(* sources and loading are its useState cells; geolocation is where the    *)
(* initial position request stands, fetches the forecast fetches in        *)
(* flight, calls the number of fetches started, settled the fetch that     *)
(* settled last, and dataFrom and textFrom the fetches whose settling      *)
(* wrote weatherData and rawText.  ChatGuardian: messages, input and       *)
(* chatLoading are its useState cells and chatSession its                  *)
(* chatSessionRef; mounts counts its activations, sends holds the sends in *)
(* flight, sent counts the sends issued and lastSend is the send that      *)
(* settled last, and submitRejected tells that the last thing to happen   *)
(* in the chat was a submission handleSend turned away.                    *)
(* PhotoGuide: device, analysis and photoLoading are its                   *)
(* useState cells; photoMounts counts its activations, analyses holds the  *)
(* uploads being read or analysed, uploads counts the uploads, photoSettled *)
(* is the analysis that settled last and analysisFrom the upload whose     *)
(* result analysis holds.                                                  *)
(***************************************************************************)
VARIABLES pIn, pOp, pOut,
          apiKey, now,
          currentView, location, locationError, geolocation,
          weatherData, rawText, sources, loading,
          fetches, calls, settled, dataFrom, textFrom,
          chatSession, messages, input, chatLoading,
          mounts, sends, sent, lastSend, submitRejected,
          device, analysis, photoLoading, analyses, uploads,
          photoMounts, photoSettled, analysisFrom

replyVars == <<pIn, pOp, pOut>>
forecastVars == <<location, locationError, geolocation,
                  weatherData, rawText, sources, loading,
                  fetches, calls, settled, dataFrom, textFrom>>
appVars == <<currentView, forecastVars>>
chatVars == <<chatSession, messages, input, chatLoading,
              mounts, sends, sent, lastSend, submitRejected>>
photoVars == <<device, analysis, photoLoading, analyses, uploads,
               photoMounts, photoSettled, analysisFrom>>
vars == <<replyVars, apiKey, now, appVars, chatVars, photoVars>>

NoOutcome == [kind |-> "none"]
NoCall == [id |-> 0]

\* no service function is being applied
ReplyStart ==
  /\ pIn = NoOutcome
  /\ pOp = "none"
  /\ pOut = NoOutcome

\* App after its first render
AppStart ==
  /\ currentView = "DASHBOARD"
  /\ location = JNull
  /\ locationError = JNull
  /\ geolocation = "idle"
  /\ weatherData = JNull
  /\ rawText = <<>>
  /\ sources = <<>>
  /\ loading = FALSE
  /\ fetches = {}
  /\ calls = 0
  /\ settled = NoCall
  /\ dataFrom = 0
  /\ textFrom = 0

\* ChatGuardian is not mounted
ChatStart ==
  /\ chatSession = JNull
  /\ messages = <<>>
  /\ input = <<>>
  /\ chatLoading = FALSE
  /\ mounts = 0
  /\ sends = {}
  /\ sent = 0
  /\ lastSend = NoCall
  /\ submitRejected = FALSE

\* PhotoGuide is not mounted
PhotoStart ==
  /\ device = "Smartphone"
  /\ analysis = JNull
  /\ photoLoading = FALSE
  /\ analyses = {}
  /\ uploads = 0
  /\ photoMounts = 0
  /\ photoSettled = NoCall
  /\ analysisFrom = 0

(***************************************************************************)
(* renderContent: the component of the current view is the one mounted.    *)
(* One update of currentView unmounts the component of the view left, whose *)
(* state is dropped, and mounts that of the view entered, with its initial  *)
(* state.  The Dashboard keeps no state of its own.                         *)
(***************************************************************************)
\* the number of activations of the chat view and of the photo view
MaxMounts == 2
MaxPhotoMounts == 1

AppViews == {"DASHBOARD", "PHOTO_GUIDE", "CHAT"}

Message(role, text) == [role |-> role, text |-> text]

\* a ChatGuardian that brings the message of the last send back into the
\* transcript when it is mounted
MountChatGuardian_RestoreLastTurn ==
  /\ mounts' = mounts + 1
  /\ messages' = IF lastSend = NoCall THEN <<Message("model", GREETING)>>
                 ELSE <<Message("model", GREETING),
                        Message("user", lastSend.message)>>
  /\ input' = <<>>
  /\ chatLoading' = FALSE
  /\ chatSession' = createChatSession(apiKey)

\* ChatGuardian is mounted: the transcript holds the greeting, the input is
\* empty, and the effect creates the session
MountChatGuardian ==
  /\ mounts' = mounts + 1
  /\ messages' = <<Message("model", GREETING)>>
  /\ input' = <<>>
  /\ chatLoading' = FALSE
  /\ chatSession' = createChatSession(apiKey)

\* ChatGuardian is unmounted: its state and its ref are dropped
UnmountChatGuardian ==
  /\ messages' = <<>>
  /\ input' = <<>>
  /\ chatLoading' = FALSE
  /\ chatSession' = JNull
  /\ UNCHANGED mounts

\* PhotoGuide is mounted with its initial state
MountPhotoGuide ==
  /\ photoMounts' = photoMounts + 1
  /\ device' = "Smartphone"
  /\ analysis' = JNull
  /\ analysisFrom' = 0
  /\ photoLoading' = FALSE

\* PhotoGuide is unmounted: its state is dropped
UnmountPhotoGuide ==
  /\ device' = "Smartphone"
  /\ analysis' = JNull
  /\ analysisFrom' = 0
  /\ photoLoading' = FALSE
  /\ UNCHANGED photoMounts

\* setCurrentView(view) and the render that follows it; the requests in
\* flight of an unmounted component stay in flight
SetCurrentView(view) ==
  /\ currentView' = view
  /\ IF view = "CHAT" THEN MountChatGuardian
     ELSE IF currentView = "CHAT" THEN UnmountChatGuardian
     ELSE UNCHANGED <<chatSession, messages, input, chatLoading, mounts>>
  /\ IF view = "PHOTO_GUIDE" THEN MountPhotoGuide
     ELSE IF currentView = "PHOTO_GUIDE" THEN UnmountPhotoGuide
     ELSE UNCHANGED <<device, analysis, analysisFrom, photoLoading,
                      photoMounts>>
  /\ submitRejected' = FALSE
  /\ UNCHANGED <<sends, sent, lastSend, analyses, uploads, photoSettled>>

\* what reading a property that is not there gives
JUndefined == [t |-> "undefined"]

\* the truth value JavaScript gives a value in a condition
Truthy(v) ==
  CASE v.t = "null" -> FALSE
    [] v.t = "undefined" -> FALSE
    [] v.t = "bool" -> v.b
    [] v.t = "num" -> v.inf \/ v.digits # <<>>
    [] v.t = "str" -> v.s # <<>>
    [] OTHER -> TRUE

\* v.k for a value v other than null and undefined, and v?.k for any v; k
\* is a property name of WeatherData or PhotoAnalysis, none of which the
\* prototypes of strings, numbers, booleans, arrays or objects define
Member(v, k) ==
  IF v.t = "obj" /\ k \in DOMAIN v.o THEN v.o[k] ELSE JUndefined

\* the conversion of v to a primitive (in a template literal, a comparison
\* with a number, an arithmetic operation) throws a TypeError: v is an
\* object with a member named toString, which is no function while
\* Object.prototype.valueOf gives the object back, or an array of which
\* join has to convert such an element
RECURSIVE CannotConvert(_)
CannotConvert(v) ==
  CASE v.t = "obj" -> <<"t","o","S","t","r","i","n","g">> \in DOMAIN v.o
    [] v.t = "arr" -> \E n \in DOMAIN v.a : CannotConvert(v.a[n])
    [] OTHER -> FALSE

\* React does not accept v as a child of an element: v is a plain object,
\* or an array with such a child.  A string, a number, a boolean, null and
\* undefined are accepted, and so is an array of accepted children
RECURSIVE InvalidChild(_)
InvalidChild(v) ==
  CASE v.t = "obj" -> TRUE
    [] v.t = "arr" -> \E n \in DOMAIN v.a : InvalidChild(v.a[n])
    [] OTHER -> FALSE

\* const flareClass = weather.solarFlare?.class || ''
flareClass(weather) ==
  IF Truthy(Member(Member(weather, WeatherDataKey.solarFlare),
                   WeatherDataKey.class))
  THEN Member(Member(weather, WeatherDataKey.solarFlare),
              WeatherDataKey.class)
  ELSE JStr(<<>>)

\* const isSignificantFlare =
\*   weather.solarFlare && weather.solarFlare.class !== 'None'
isSignificantFlare(weather) ==
  /\ Truthy(Member(weather, WeatherDataKey.solarFlare))
  /\ Member(Member(weather, WeatherDataKey.solarFlare), WeatherDataKey.class)
       # JStr(<<"N","o","n","e">>)

\* a member of weather that the report holds as a child is no valid child:
\* locationName (line 119), the class and the impact of a significant
\* flare (lines 140 and 141), kpIndex (line 169), visibilityChance (line
\* 170), and the location and the status of a nearest detection (lines 212
\* and 213)
ReportChildInvalid(weather) ==
  \/ \E k \in {WeatherDataKey.locationName, WeatherDataKey.kpIndex,
               WeatherDataKey.visibilityChance} :
       InvalidChild(Member(weather, k))
  \/ /\ isSignificantFlare(weather)
     /\ \E k \in {WeatherDataKey.class, WeatherDataKey.impact} :
          InvalidChild(Member(Member(weather, WeatherDataKey.solarFlare), k))
  \/ /\ Truthy(Member(weather, WeatherDataKey.nearestDetection))
     /\ \E k \in {WeatherDataKey.location, WeatherDataKey.status} :
          InvalidChild(Member(Member(weather,
                                     WeatherDataKey.nearestDetection), k))

\* Dashboard from line 92 on, weather being truthy, and the render of what
\* it returns: the report with the refresh button, or a throw.  A
\* TypeError is thrown by flareClass.toUpperCase() when flareClass is not a
\* string and by the conversion of a member to a primitive: tonightsWindow
\* (line 158), solarWindSpeed (formatSpeed, line 179), bz (lines 185 and
\* 186) and solarWindDensity (formatDensity, line 193).  The render throws
\* when a member placed as a child is no valid child.  The chart, which
\* takes weather.forecast, is a component of a library and not modelled.
Report(weather) ==
  IF ~IsStr(flareClass(weather)) THEN "throw"
  ELSE IF \E k \in {WeatherDataKey.tonightsWindow,
                    WeatherDataKey.solarWindSpeed, WeatherDataKey.bz,
                    WeatherDataKey.solarWindDensity} :
            CannotConvert(Member(weather, k))
  THEN "throw"
  ELSE IF ReportChildInvalid(weather) THEN "throw"
  ELSE "report"

\* a Dashboard without the loading branch: the report or the narrative, with
\* their buttons, stay on screen while a fetch is in flight
Dashboard_NoSpinner(weather, isLoading, text) ==
  IF ~Truthy(weather) /\ text # <<>> THEN "narrative"
  ELSE IF ~Truthy(weather) THEN "empty"
  ELSE Report(weather)

\* what Dashboard gives once rendered: the spinner, the narrative alone
\* with the retry button, nothing, the full report with the refresh button,
\* or a throw
Dashboard(weather, isLoading, text) ==
  IF isLoading THEN "spinner"
  ELSE IF ~Truthy(weather) /\ text # <<>> THEN "narrative"
  ELSE IF ~Truthy(weather) THEN "empty"
  ELSE Report(weather)

\* ProbabilityRing, which the report holds with the score
\* weather.probabilityScore || 0: score / 100 and the comparisons convert
\* the score, and the score is a child of the ring (line 52)
ProbabilityRing(weather) ==
  IF /\ Truthy(Member(weather, WeatherDataKey.probabilityScore))
     /\ \/ CannotConvert(Member(weather, WeatherDataKey.probabilityScore))
        \/ InvalidChild(Member(weather, WeatherDataKey.probabilityScore))
  THEN "throw"
  ELSE "ring"

\* what renderContent shows of the forecast: what Dashboard gives, the ring
\* of a report being rendered with it
Shown ==
  IF currentView # "DASHBOARD" THEN "none"
  ELSE IF /\ Dashboard(weatherData, loading, rawText) = "report"
          /\ ProbabilityRing(weatherData) = "throw"
  THEN "throw"
  ELSE Dashboard(weatherData, loading, rawText)

\* what PhotoGuide gives below its upload control, once rendered: nothing
\* without an analysis, the analysis, or a throw.  A TypeError is thrown by
\* analysis.recommendedSettings.iso when recommendedSettings is undefined
\* or null and by analysis.checklist.map when checklist is no array; the
\* render throws when a child is no valid child: cloudCover,
\* darknessRating, the four recommended settings, an item of the checklist
\* or feedback (lines 95 to 141)
PhotoGuide(value) ==
  IF ~Truthy(value) THEN "none"
  ELSE IF Member(value, PhotoAnalysisKey.recommendedSettings).t
            \in {"undefined", "null"}
  THEN "throw"
  ELSE IF Member(value, PhotoAnalysisKey.checklist).t # "arr" THEN "throw"
  ELSE IF \E k \in {PhotoAnalysisKey.cloudCover,
                    PhotoAnalysisKey.darknessRating,
                    PhotoAnalysisKey.checklist, PhotoAnalysisKey.feedback} :
            InvalidChild(Member(value, k))
  THEN "throw"
  ELSE IF \E k \in {PhotoAnalysisKey.iso, PhotoAnalysisKey.shutterSpeed,
                    PhotoAnalysisKey.aperture, PhotoAnalysisKey.focus} :
            InvalidChild(Member(Member(value,
                                       PhotoAnalysisKey.recommendedSettings),
                                k))
  THEN "throw"
  ELSE "analysis"

\* the render of the current view has thrown.  No error boundary is above
\* the components, so nothing of the tree of App stays mounted: no control
\* is on screen, and the setters of App and of its components do nothing.
Unmounted ==
  \/ Shown = "throw"
  \/ /\ currentView = "PHOTO_GUIDE"
     /\ PhotoGuide(analysis) = "throw"

\* a button of the navigation bar is clicked, of those for the views the
\* user visits: setCurrentView(view) for a view other than the current one
NavigateAmong(views) ==
  /\ ~Unmounted
  /\ \E view \in views \ {currentView} :
       /\ view = "CHAT" => mounts < MaxMounts
       /\ view = "PHOTO_GUIDE" => photoMounts < MaxPhotoMounts
       /\ SetCurrentView(view)
  /\ UNCHANGED <<replyVars, apiKey, now, forecastVars>>

\* the user moves between all three views
Navigate == NavigateAmong(AppViews)

(***************************************************************************)
(* The service functions applied to the outcomes of one external call.     *)
(***************************************************************************)
InitReply ==
  /\ \/ pIn \in {Throw("ApiError"), Return(Response(FALSE, <<>>, <<>>)),
                 Return(Response(TRUE, PhotoReply, <<>>))}
     \/ \E n \in 0..MaxSegs : \E ss \in [1..n -> Segments] :
          pIn = Return(Response(TRUE, Flatten(ss), <<>>))
  /\ pOp = "none"
  /\ pOut = NoOutcome
  /\ apiKey = TRUE
  /\ now = 0
  /\ AppStart
  /\ ChatStart
  /\ PhotoStart

\* extractJson applied to the text of a reply
ApplyExtractJson ==
  /\ pOp = "none"
  /\ pIn.kind = "return"
  /\ pOp' = "extractJson"
  /\ pOut' = extractJson(ResponseText(pIn.v))
  /\ UNCHANGED <<pIn, apiKey, now, appVars, chatVars, photoVars>>

\* the live path of fetchSpaceWeather applied to an outcome of the call
ApplyFetchSpaceWeather ==
  /\ pOp = "none"
  /\ pOp' = "fetchSpaceWeather"
  /\ pOut' = fetchSpaceWeatherLive(pIn)
  /\ UNCHANGED <<pIn, apiKey, now, appVars, chatVars, photoVars>>

\* the live path of analyzeSkyPhoto applied to an outcome of the call
ApplyAnalyzeSkyPhoto ==
  /\ pOp = "none"
  /\ pOp' = "analyzeSkyPhoto"
  /\ pOut' = analyzeSkyPhotoLive(pIn)
  /\ UNCHANGED <<pIn, apiKey, now, appVars, chatVars, photoVars>>

NextReply ==
  \/ ApplyExtractJson
  \/ ApplyFetchSpaceWeather
  \/ ApplyAnalyzeSkyPhoto

SpecReply == InitReply /\ [][NextReply]_vars

(***************************************************************************)
(* App: the initial position request, loadWeatherData, handleRefresh and   *)
(* the Dashboard that offers the refresh control.                          *)
(***************************************************************************)
\* the number of forecast fetches a behaviour starts
MaxCalls == 3
\* the step of the clock and the instant it stops at, in milliseconds
TickMs == 500
MaxNow == 4500

Coords(lat, lon) == [latitude |-> lat, longitude |-> lon]

\* const defaultCoords = { latitude: 64.1265, longitude: -21.8174 }
defaultCoords == Coords(JNum(641265, -4), JNum(-218174, -4))

\* the positions the device reports
DevicePositions == {Coords(JNum(60, 0), JNum(25, 0)), defaultCoords}

\* the grounding chunks of a reply: one with a web reference, one without
GroundedChunks ==
  <<[hasWeb |-> TRUE, uri |-> <<"h","t","t","p","s",":","/","/","a">>,
     title |-> <<"N","O","A","A">>],
    [hasWeb |-> FALSE, uri |-> <<>>, title |-> <<>>]>>

\* a reply whose block holds a record with a solar flare of class 5, a
\* number where WeatherData has a string
SegTaggedFlare ==
  FENCE_JSON_NL
    \o <<"{","\"","s","o","l","a","r","F","l","a","r","e","\"",":","{","\"",
         "c","l","a","s","s","\"",":","5","}","}">>
    \o NL_FENCE

\* a reply whose block holds a record with an object for kpIndex, a
\* number in WeatherData, which the report places as a child
SegTaggedChild ==
  FENCE_JSON_NL
    \o <<"{","\"","k","p","I","n","d","e","x","\"",":","{","}","}">>
    \o NL_FENCE

\* what the external model does with a forecast request
ForecastOutcomes ==
  {Throw("ApiError"),
   Return(Response(TRUE, SegProse \o SegNewline \o SegTaggedExample,
                   GroundedChunks)),
   Return(Response(TRUE, SegTaggedNumber \o SegNewline \o SegProse \o SegSpace,
                   <<>>)),
   Return(Response(TRUE, SegProse \o SegSpace \o SegProse, <<>>)),
   Return(Response(TRUE, SegProse \o SegNewline \o SegTaggedFlare, <<>>)),
   Return(Response(TRUE, SegProse \o SegNewline \o SegTaggedChild, <<>>)),
   Return(Response(FALSE, <<>>, <<>>))}

InitApp ==
  /\ ReplyStart
  /\ apiKey \in BOOLEAN
  /\ now = 0
  /\ AppStart
  /\ ChatStart
  /\ PhotoStart

\* loadWeatherData(coords) up to its await: the loading flag is set and
\* fetchSpaceWeather is called, which starts the timer of the fallback or
\* the request to the external model
LoadWeatherData(coords) ==
  /\ loading' = IF Unmounted THEN loading ELSE TRUE
  /\ calls' = calls + 1
  /\ fetches' = fetches \cup {[id |-> calls + 1, coords |-> coords,
                               start |-> now,
                               live |-> getAI(apiKey) # JNull]}
  /\ UNCHANGED <<weatherData, rawText, sources, settled, dataFrom, textFrom>>

\* loadWeatherData with setLoading(false) at the end of the try block
\* instead of in a finally: a failed fetch leaves the flag set
LoadSettled_NoFinally(c, r) ==
  /\ fetches' = fetches \ {c}
  /\ settled' = [id |-> c.id, coords |-> c.coords, start |-> c.start,
                 end |-> now, outcome |-> r]
  /\ IF r.kind = "return"
     THEN /\ weatherData' = r.v.data
          /\ rawText' = r.v.rawText
          /\ sources' = r.v.sources
          /\ dataFrom' = c.id
          /\ textFrom' = c.id
          /\ loading' = FALSE
     ELSE /\ rawText' = UNABLE_TO_FETCH
          /\ textFrom' = c.id
          /\ UNCHANGED <<weatherData, sources, dataFrom, loading>>
  /\ UNCHANGED <<calls, currentView, location, locationError, geolocation>>

\* loadWeatherData with a catch that also resets the report: the data and
\* the sources of the earlier fetch are dropped when a fetch fails
LoadSettled_ClearOnFailure(c, r) ==
  /\ fetches' = fetches \ {c}
  /\ settled' = [id |-> c.id, coords |-> c.coords, start |-> c.start,
                 end |-> now, outcome |-> r]
  /\ IF r.kind = "return"
     THEN /\ weatherData' = r.v.data
          /\ rawText' = r.v.rawText
          /\ sources' = r.v.sources
          /\ dataFrom' = c.id
          /\ textFrom' = c.id
     ELSE /\ rawText' = UNABLE_TO_FETCH
          /\ textFrom' = c.id
          /\ weatherData' = JNull
          /\ sources' = <<>>
          /\ dataFrom' = c.id
  /\ loading' = FALSE
  /\ UNCHANGED <<calls, currentView, location, locationError, geolocation>>

\* loadWeatherData after its await, the fetch c having settled with r: the
\* result is stored, or the fixed message when the fetch failed, and the
\* loading flag is cleared; the setters of an unmounted App do nothing
LoadSettled(c, r) ==
  /\ fetches' = fetches \ {c}
  /\ settled' = [id |-> c.id, coords |-> c.coords, start |-> c.start,
                 end |-> now, outcome |-> r]
  /\ IF Unmounted
     THEN UNCHANGED <<weatherData, rawText, sources, dataFrom, textFrom,
                      loading>>
     ELSE /\ IF r.kind = "return"
             THEN /\ weatherData' = r.v.data
                  /\ rawText' = r.v.rawText
                  /\ sources' = r.v.sources
                  /\ dataFrom' = c.id
                  /\ textFrom' = c.id
             ELSE /\ rawText' = UNABLE_TO_FETCH
                  /\ textFrom' = c.id
                  /\ UNCHANGED <<weatherData, sources, dataFrom>>
          /\ loading' = FALSE
  /\ UNCHANGED <<calls, currentView, location, locationError, geolocation>>

\* the effect of the first render: the position is requested, or the
\* browser has no geolocation
InitialLocationFetch ==
  /\ geolocation = "idle"
  /\ \E supported \in BOOLEAN :
       IF supported
       THEN /\ geolocation' = "requested"
            /\ UNCHANGED locationError
       ELSE /\ geolocation' = "unsupported"
            /\ locationError' = GEOLOCATION_NOT_SUPPORTED
  /\ UNCHANGED <<currentView, location, weatherData, rawText, sources,
                 loading, fetches, calls, settled, dataFrom, textFrom>>
  /\ UNCHANGED <<replyVars, apiKey, now, chatVars, photoVars>>

\* the success callback of getCurrentPosition; setLocation does nothing on
\* an unmounted App, the fetch is started all the same
PositionFound ==
  /\ geolocation = "requested"
  /\ geolocation' = "found"
  /\ \E coords \in DevicePositions :
       /\ location' = IF Unmounted THEN location ELSE coords
       /\ LoadWeatherData(coords)
  /\ UNCHANGED <<currentView, locationError>>
  /\ UNCHANGED <<replyVars, apiKey, now, chatVars, photoVars>>

\* the error callback of getCurrentPosition; setLocationError and
\* setLocation do nothing on an unmounted App, the fetch is started all the
\* same
PositionError ==
  /\ geolocation = "requested"
  /\ geolocation' = "failed"
  /\ locationError' = IF Unmounted THEN locationError ELSE LOCATION_DENIED
  /\ location' = IF Unmounted THEN location ELSE defaultCoords
  /\ LoadWeatherData(defaultCoords)
  /\ UNCHANGED currentView
  /\ UNCHANGED <<replyVars, apiKey, now, chatVars, photoVars>>

\* handleRefresh, from the button of the narrative or of the report
HandleRefresh ==
  /\ Shown \in {"narrative", "report"}
  /\ calls < MaxCalls
  /\ IF location # JNull
     THEN LoadWeatherData(location)
     ELSE UNCHANGED <<weatherData, rawText, sources, loading, fetches,
                      calls, settled, dataFrom, textFrom>>
  /\ UNCHANGED <<currentView, location, locationError, geolocation>>
  /\ UNCHANGED <<replyVars, apiKey, now, chatVars, photoVars>>

\* time passes
Tick ==
  /\ now + TickMs <= MaxNow
  /\ now' = now + TickMs
  /\ UNCHANGED <<replyVars, apiKey, appVars, chatVars, photoVars>>

\* time passes while the timer of a fallback fetch is running
TimerRuns ==
  /\ \E c \in fetches :
       ~c.live /\ now < TimerDue(c.start, FALLBACK_FETCH_DELAY)
  /\ Tick

\* the timer of a fallback fetch runs its callback
FallbackTimerFires ==
  /\ \E c \in fetches :
       /\ ~c.live
       /\ now >= TimerDue(c.start, FALLBACK_FETCH_DELAY)
       /\ LoadSettled(c, fetchSpaceWeatherFallback)
  /\ UNCHANGED <<replyVars, apiKey, now, chatVars, photoVars>>

\* the external model answers a live fetch, or the call fails
ModelReplies ==
  /\ \E c \in fetches :
       /\ c.live
       /\ \E outcome \in ForecastOutcomes :
            LoadSettled(c, fetchSpaceWeatherLive(outcome))
  /\ UNCHANGED <<replyVars, apiKey, now, chatVars, photoVars>>

NextApp ==
  \/ InitialLocationFetch
  \/ PositionFound
  \/ PositionError
  \/ HandleRefresh
  \/ Navigate
  \/ TimerRuns
  \/ FallbackTimerFires
  \/ ModelReplies

SpecApp == InitApp /\ [][NextApp]_vars

\* the forecast flow when time passes, timers run their callbacks when due
\* and the external model answers every request
SpecAppFair ==
  /\ SpecApp
  /\ WF_now(TimerRuns)
  /\ WF_fetches(FallbackTimerFires)
  /\ WF_fetches(ModelReplies)

(***************************************************************************)
(* loadWeatherData on its own: the function is called whenever a caller    *)
(* chooses, also while an earlier call is awaiting its fetch.  The          *)
(* component tree of SpecApp never does this (the refresh buttons are not   *)
(* rendered while loading is set, and the position is requested once); a    *)
(* second run of the mount effect, or any other caller, does.               *)
(***************************************************************************)
InitLoads == InitApp

\* loadWeatherData(coords), called with a position
CallLoadWeatherData ==
  /\ calls < MaxCalls
  /\ \E coords \in DevicePositions : LoadWeatherData(coords)
  /\ UNCHANGED <<currentView, location, locationError, geolocation>>
  /\ UNCHANGED <<replyVars, apiKey, now, chatVars, photoVars>>

NextLoads ==
  \/ CallLoadWeatherData
  \/ TimerRuns
  \/ FallbackTimerFires
  \/ ModelReplies

SpecLoads == InitLoads /\ [][NextLoads]_vars

(***************************************************************************)
(* ChatGuardian: the component is mounted while the chat view is shown.    *)
(* The id and the timestamp of a message, both read from the clock, are    *)
(* not part of the model.                                                  *)
(***************************************************************************)
\* the number of sends a behaviour issues
MaxSends == 3

\* what the user types into the input
ChatInputs ==
  {<<>>, <<" ", "U+00A0">>, <<"h","i">>, <<" ","K","p","?">>}

\* what the external model does with a message of a live chat
ChatOutcomes ==
  {Return([text |-> <<"A","l","l"," ","c","l","e","a","r","."," ">>]),
   Return([text |-> Undefined]),
   Throw("ApiError")}

InitChat ==
  /\ ReplyStart
  /\ apiKey \in BOOLEAN
  /\ now = 0
  /\ AppStart
  /\ ChatStart
  /\ PhotoStart

\* onChange of the input
TypeInput ==
  /\ currentView = "CHAT"
  /\ \E text \in ChatInputs \ {input} : input' = text
  /\ submitRejected' = FALSE
  /\ UNCHANGED <<currentView, chatSession, messages, chatLoading, mounts,
                 sends, sent, lastSend>>
  /\ UNCHANGED <<replyVars, apiKey, now, forecastVars, photoVars>>

\* a submission that cannot be answered without waiting for the send in
\* flight is still taken
SubmitIgnored_EmptyOnly(text, isLoading) == Trim(text) = <<>>

\* if (!input.trim() || loading) return
SubmitIgnored(text, isLoading) == Trim(text) = <<>> \/ isLoading

\* handleSend clearing the input before it looks at it: a submission that
\* is turned away loses what was typed
HandleSend_ClearsFirst ==
  /\ currentView = "CHAT"
  /\ sent < MaxSends
  /\ input' = <<>>
  /\ IF SubmitIgnored(input, chatLoading)
     THEN /\ submitRejected' = TRUE
          /\ UNCHANGED <<messages, chatLoading, sends, sent>>
     ELSE /\ submitRejected' = FALSE
          /\ messages' = Append(messages, Message("user", input))
          /\ chatLoading' = TRUE
          /\ sent' = sent + 1
          /\ sends' = sends \cup {[id |-> sent + 1, mount |-> mounts,
                                   session |-> chatSession,
                                   message |-> input]}
  /\ UNCHANGED <<currentView, chatSession, mounts, lastSend>>
  /\ UNCHANGED <<replyVars, apiKey, now, forecastVars, photoVars>>

\* handleSend up to its await: an empty input or a send in flight ends it;
\* else the user message is appended, the input cleared, the loading flag
\* set and sendMessage called on the session
HandleSend ==
  /\ currentView = "CHAT"
  /\ sent < MaxSends
  /\ IF SubmitIgnored(input, chatLoading)
     THEN /\ submitRejected' = TRUE
          /\ UNCHANGED <<messages, input, chatLoading, sends, sent>>
     ELSE /\ submitRejected' = FALSE
          /\ messages' = Append(messages, Message("user", input))
          /\ input' = <<>>
          /\ chatLoading' = TRUE
          /\ sent' = sent + 1
          /\ sends' = sends \cup {[id |-> sent + 1, mount |-> mounts,
                                   session |-> chatSession,
                                   message |-> input]}
  /\ UNCHANGED <<currentView, chatSession, mounts, lastSend>>
  /\ UNCHANGED <<replyVars, apiKey, now, forecastVars, photoVars>>

\* a settlement that puts the answer in the place of the user's message
\* instead of appending it
SendSettled_ReplaceLast(s, r, sessionAfter) ==
  /\ sends' = sends \ {s}
  /\ lastSend' = [id |-> s.id, message |-> s.message, result |-> r]
  /\ IF currentView = "CHAT" /\ s.mount = mounts
     THEN /\ messages' = [messages EXCEPT ![Len(messages)] =
                            Message("model", IF r.kind = "return"
                                             THEN r.v.text
                                             ELSE COMM_LINK_DISRUPTED)]
          /\ chatLoading' = FALSE
          /\ chatSession' = sessionAfter
     ELSE UNCHANGED <<messages, chatLoading, chatSession>>
  /\ submitRejected' = FALSE
  /\ UNCHANGED <<currentView, input, mounts, sent>>

\* handleSend after its await, the send s having settled with result r: the
\* reply, or the fixed apology when the send failed, is appended and the
\* loading flag cleared; the setters of an unmounted component do nothing
SendSettled(s, r, sessionAfter) ==
  /\ sends' = sends \ {s}
  /\ lastSend' = [id |-> s.id, message |-> s.message, result |-> r]
  /\ IF currentView = "CHAT" /\ s.mount = mounts
     THEN /\ messages' = Append(messages,
                           Message("model", IF r.kind = "return"
                                            THEN r.v.text
                                            ELSE COMM_LINK_DISRUPTED))
          /\ chatLoading' = FALSE
          /\ chatSession' = sessionAfter
     ELSE UNCHANGED <<messages, chatLoading, chatSession>>
  /\ submitRejected' = FALSE
  /\ UNCHANGED <<currentView, input, mounts, sent>>

\* a send in flight settles: at once on a substitute handle, with what the
\* external model does on a live one
SendSettles ==
  /\ \E s \in sends :
       \E outcome \in ChatOutcomes :
         SendSettled(s, sendMessage(s.session, s.message, outcome),
                     SessionAfter(s.session, s.message, outcome))
  /\ UNCHANGED <<replyVars, apiKey, now, forecastVars, photoVars>>

NextChat ==
  \/ Navigate
  \/ TypeInput
  \/ HandleSend
  \/ SendSettles

SpecChat == InitChat /\ [][NextChat]_vars

(***************************************************************************)
(* PhotoGuide: the component is mounted while the photo view is shown.  An *)
(* upload is read by a FileReader and then analysed.                       *)
(***************************************************************************)
\* the number of uploads a behaviour makes
MaxUploads == 2

\* the options of the device select the user picks from
Devices == {"Smartphone", "DSLR/Mirrorless", "Action Camera"}

\* the photos the user uploads, by their base64 content
Photos == {"photoA", "photoB"}

\* what the external model does with a photo
PhotoOutcomes ==
  {Throw("ApiError"),
   Return(Response(TRUE, PhotoReply, <<>>)),
   Return(Response(TRUE, SegBareObject, <<>>)),
   Return(Response(TRUE, SegProse, <<>>))}

\* what analyzeSkyPhoto gives, with an API key, for these outcomes
PhotoResults == {analyzeSkyPhotoLive(outcome) : outcome \in PhotoOutcomes}

InitPhoto ==
  /\ ReplyStart
  /\ apiKey \in BOOLEAN
  /\ now = 0
  /\ AppStart
  /\ ChatStart
  /\ PhotoStart

\* the user of the photo flow moves between the dashboard and the photo view
NavigatePhoto == NavigateAmong({"DASHBOARD", "PHOTO_GUIDE"})

\* onChange of the device select
SelectDevice ==
  /\ currentView = "PHOTO_GUIDE"
  /\ ~Unmounted
  /\ \E d \in Devices \ {device} : device' = d
  /\ UNCHANGED <<currentView, analysis, photoLoading, analyses, uploads,
                 photoMounts, photoSettled, analysisFrom>>
  /\ UNCHANGED <<replyVars, apiKey, now, forecastVars, chatVars>>

\* handleFileUpload: without a file nothing happens; else the loading flag
\* is set, the analysis cleared and the FileReader started
HandleFileUpload ==
  /\ currentView = "PHOTO_GUIDE"
  /\ ~Unmounted
  /\ uploads < MaxUploads
  /\ \E hasFile \in BOOLEAN : \E photo \in Photos :
       IF ~hasFile
       THEN UNCHANGED <<analysis, photoLoading, analyses, uploads,
                        analysisFrom>>
       ELSE /\ photoLoading' = TRUE
            /\ analysis' = JNull
            /\ analysisFrom' = 0
            /\ uploads' = uploads + 1
            /\ analyses' = analyses \cup
                 {[id |-> uploads + 1, mount |-> photoMounts,
                   photo |-> photo, device |-> device,
                   stage |-> "reading", start |-> 0, live |-> FALSE]}
  /\ UNCHANGED <<currentView, device, photoMounts, photoSettled>>
  /\ UNCHANGED <<replyVars, apiKey, now, forecastVars, chatVars>>

\* reader.onloadend with the content of the file: analyzeSkyPhoto is called,
\* which starts the timer of the fallback or the request to the external
\* model
ReaderLoaded ==
  /\ \E a \in analyses :
       /\ a.stage = "reading"
       /\ analyses' = (analyses \ {a}) \cup
            {[a EXCEPT !.stage = "analyzing", !.start = now,
                       !.live = getAI(apiKey) # JNull]}
  /\ UNCHANGED <<currentView, device, analysis, photoLoading, uploads,
                 photoMounts, photoSettled, analysisFrom>>
  /\ UNCHANGED <<replyVars, apiKey, now, forecastVars, chatVars>>

\* reader.onloadend after a read error: reader.result is null, the callback
\* throws before its try block and nothing is set
ReaderFailed ==
  /\ \E a \in analyses :
       /\ a.stage = "reading"
       /\ analyses' = analyses \ {a}
  /\ UNCHANGED <<currentView, device, analysis, photoLoading, uploads,
                 photoMounts, photoSettled, analysisFrom>>
  /\ UNCHANGED <<replyVars, apiKey, now, forecastVars, chatVars>>

\* the callback of onloadend after its await, the analysis a having settled
\* with r: the result is stored unless the call failed, and the loading flag
\* is cleared; the setters of an unmounted component do nothing
AnalysisSettled(a, r) ==
  /\ analyses' = analyses \ {a}
  /\ photoSettled' = [id |-> a.id, photo |-> a.photo, device |-> a.device,
                      start |-> a.start, end |-> now, outcome |-> r]
  /\ IF currentView = "PHOTO_GUIDE" /\ a.mount = photoMounts /\ ~Unmounted
     THEN /\ IF r.kind = "return"
             THEN analysis' = r.v /\ analysisFrom' = a.id
             ELSE UNCHANGED <<analysis, analysisFrom>>
          /\ photoLoading' = FALSE
     ELSE UNCHANGED <<analysis, analysisFrom, photoLoading>>
  /\ UNCHANGED <<currentView, device, uploads, photoMounts>>

\* time passes while the timer of a fallback analysis is running, two steps
\* of the clock at once
PhotoTick ==
  /\ \E a \in analyses : /\ a.stage = "analyzing"
                          /\ ~a.live
                          /\ now < TimerDue(a.start, FALLBACK_PHOTO_DELAY)
  /\ now + 2 * TickMs <= MaxNow
  /\ now' = now + 2 * TickMs
  /\ UNCHANGED <<replyVars, apiKey, appVars, chatVars, photoVars>>

\* the timer of a fallback analysis runs its callback
PhotoTimerFires ==
  /\ \E a \in analyses :
       /\ a.stage = "analyzing"
       /\ ~a.live
       /\ now >= TimerDue(a.start, FALLBACK_PHOTO_DELAY)
       /\ AnalysisSettled(a, analyzeSkyPhotoFallback)
  /\ UNCHANGED <<replyVars, apiKey, now, forecastVars, chatVars>>

\* the external model answers a live analysis, or the call fails
PhotoModelReplies ==
  /\ \E a \in analyses :
       /\ a.stage = "analyzing"
       /\ a.live
       /\ \E r \in PhotoResults : AnalysisSettled(a, r)
  /\ UNCHANGED <<replyVars, apiKey, now, forecastVars, chatVars>>

NextPhoto ==
  \/ NavigatePhoto
  \/ SelectDevice
  \/ HandleFileUpload
  \/ ReaderLoaded
  \/ ReaderFailed
  \/ PhotoTick
  \/ PhotoTimerFires
  \/ PhotoModelReplies

SpecPhoto == InitPhoto /\ [][NextPhoto]_vars

(***************************************************************************)
(* The four operations of the service, with or without an API key: what    *)
(* each gives, and whether it calls the external model, for an outcome the *)
(* external model would produce.                                           *)
(***************************************************************************)
\* the number of grounding chunks of a reply
MaxChunks == 2

\* a grounding chunk with a web reference, and one without
WebChunk(uri, title) == [hasWeb |-> TRUE, uri |-> uri, title |-> title]
OtherChunk == [hasWeb |-> FALSE, uri |-> <<>>, title |-> <<>>]

ChunkKinds ==
  {WebChunk(<<"h","t","t","p","s",":","/","/","a">>, <<"N","O","A","A">>),
   WebChunk(<<"h","t","t","p","s",":","/","/","b">>, <<"S","W","P","C">>),
   OtherChunk}

\* the texts of the replies
ServiceTexts ==
  {SegProse \o SegNewline \o SegTaggedExample, SegProse,
   SegTaggedBroken, PhotoReply}

\* what called the operation gives: whether the external model was called,
\* and how the operation completed
Called(external, result) == [external |-> external, result |-> result]

\* the promise of an operation called at the instant start, not yet
\* settled, and the message that was sent when the operation is a send
Pending(start) == [kind |-> "pending", start |-> start, message |-> <<>>]

\* fetchSpaceWeather(coords): the fallback without a client, else the call
fetchSpaceWeather(key, outcome) ==
  IF getAI(key) = JNull THEN Called(FALSE, fetchSpaceWeatherFallback)
  ELSE Called(TRUE, fetchSpaceWeatherLive(outcome))

\* analyzeSkyPhoto(base64Image, deviceType)
analyzeSkyPhoto(key, outcome) ==
  IF getAI(key) = JNull THEN Called(FALSE, analyzeSkyPhotoFallback)
  ELSE Called(TRUE, analyzeSkyPhotoLive(outcome))

\* what chat.sendMessage gives for an outcome of the external model
ChatOutcome(outcome) ==
  IF outcome.kind = "throw" THEN outcome
  ELSE Return([text |-> IF outcome.v.hasText THEN outcome.v.text
                        ELSE Undefined])

\* sendMessage on the handle createChatSession() gave
sendOnNewSession(key, message, outcome) ==
  Called(createChatSession(key).kind = "live",
         sendMessage(createChatSession(key), message, ChatOutcome(outcome)))

InitService ==
  /\ \/ pIn \in {Throw("ApiError"), Return(Response(FALSE, <<>>, <<>>))}
     \/ \E text \in ServiceTexts :
          \E n \in 0..MaxChunks : \E chunks \in [1..n -> ChunkKinds] :
            pIn = Return(Response(TRUE, text, chunks))
  /\ pOp = "none"
  /\ pOut = NoOutcome
  /\ apiKey \in BOOLEAN
  /\ now = 0
  /\ AppStart
  /\ ChatStart
  /\ PhotoStart

\* fetchSpaceWeather(coords) is called: it returns a promise, pending at
\* the timer of the fallback or at the await of the external call
CallFetchSpaceWeather ==
  /\ pOp = "none"
  /\ pOp' = "fetchSpaceWeather"
  /\ pOut' = Called(fetchSpaceWeather(apiKey, pIn).external, Pending(now))
  /\ UNCHANGED <<pIn, apiKey, now, appVars, chatVars, photoVars>>

\* analyzeSkyPhoto(base64Image, deviceType) is called: it returns a promise,
\* pending at the timer of the fallback or at the await of the external call
CallAnalyzeSkyPhoto ==
  /\ pOp = "none"
  /\ pOp' = "analyzeSkyPhoto"
  /\ pOut' = Called(analyzeSkyPhoto(apiKey, pIn).external, Pending(now))
  /\ UNCHANGED <<pIn, apiKey, now, appVars, chatVars, photoVars>>

\* createChatSession(), which returns the handle at once
CallCreateChatSession ==
  /\ pOp = "none"
  /\ pOp' = "createChatSession"
  /\ pOut' = Called(FALSE, Return(createChatSession(apiKey)))
  /\ UNCHANGED <<pIn, apiKey, now, appVars, chatVars, photoVars>>

\* sendMessage on a new handle: the substitute returns a promise fulfilled
\* with the fixed text, a live chat one that is pending until the external
\* model has answered
CallSendMessage ==
  /\ pOp = "none"
  /\ pOp' = "sendMessage"
  /\ \E message \in ChatInputs :
       pOut' = IF sendOnNewSession(apiKey, message, pIn).external
               THEN Called(TRUE, [Pending(now) EXCEPT !.message = message])
               ELSE sendOnNewSession(apiKey, message, pIn)
  /\ UNCHANGED <<pIn, apiKey, now, appVars, chatVars, photoVars>>

\* an operation has been called and its promise is pending
ServicePending ==
  /\ pOp \in {"fetchSpaceWeather", "analyzeSkyPhoto", "sendMessage"}
  /\ pOut.result.kind = "pending"

\* the delay of the timer of the fallback of the operation called
ServiceDelay ==
  IF pOp = "fetchSpaceWeather" THEN FALLBACK_FETCH_DELAY
  ELSE FALLBACK_PHOTO_DELAY

\* time passes while the timer of a fallback is running
ServiceTimerRuns ==
  /\ ServicePending
  /\ ~pOut.external
  /\ now < TimerDue(pOut.result.start, ServiceDelay)
  /\ Tick

\* the timer of a fallback runs its callback, which resolves the promise
ServiceTimerFires ==
  /\ ServicePending
  /\ ~pOut.external
  /\ now >= TimerDue(pOut.result.start, ServiceDelay)
  /\ pOut' = IF pOp = "fetchSpaceWeather"
             THEN fetchSpaceWeather(apiKey, pIn)
             ELSE analyzeSkyPhoto(apiKey, pIn)
  /\ UNCHANGED <<pIn, pOp, apiKey, now, appVars, chatVars, photoVars>>

\* the external model answers, or the call fails: the operation goes on
\* after its await and its promise settles
ServiceReplies ==
  /\ ServicePending
  /\ pOut.external
  /\ pOut' = CASE pOp = "fetchSpaceWeather" -> fetchSpaceWeather(apiKey, pIn)
               [] pOp = "analyzeSkyPhoto" -> analyzeSkyPhoto(apiKey, pIn)
               [] OTHER -> sendOnNewSession(apiKey, pOut.result.message, pIn)
  /\ UNCHANGED <<pIn, pOp, apiKey, now, appVars, chatVars, photoVars>>

NextService ==
  \/ CallFetchSpaceWeather
  \/ CallAnalyzeSkyPhoto
  \/ CallCreateChatSession
  \/ CallSendMessage
  \/ ServiceTimerRuns
  \/ ServiceTimerFires
  \/ ServiceReplies

SpecService == InitService /\ [][NextService]_vars

(***************************************************************************)
(* Fenced blocks, as the claims speak of them: an opening fence line       *)
(* (tagged json or untagged), the content, and the first closing fence     *)
(* line after it.  A block is the pair of the positions of its opening     *)
(* fence and of the line break before its closing fence.                   *)
(***************************************************************************)
BlocksOpenedBy(text, open) ==
  LET opens == {i \in 1..Len(text) : MatchAt(text, open, i)}
      closes == {j \in 1..Len(text) : MatchAt(text, NL_FENCE, j)}
  IN {b \in opens \X closes :
        /\ b[2] >= b[1] + Len(open)
        /\ \A k \in closes : ~(b[1] + Len(open) <= k /\ k < b[2])}

TaggedBlocks(text) == BlocksOpenedBy(text, FENCE_JSON_NL)
UntaggedBlocks(text) == BlocksOpenedBy(text, FENCE_NL)

TaggedContent(text, b) == SubSeq(text, b[1] + Len(FENCE_JSON_NL), b[2] - 1)
UntaggedContent(text, b) == SubSeq(text, b[1] + Len(FENCE_NL), b[2] - 1)

\* the block as a substring of the text, fences included
BlockText(text, b) == SubSeq(text, b[1], b[2] + Len(NL_FENCE) - 1)

FirstBlock(bs) == CHOOSE b \in bs : \A c \in bs : b[1] <= c[1]

ValidJson(content) == JSON_parse(content).kind = "return"
Decoded(content) == JSON_parse(content).v

\* the text has no fenced block, tagged or untagged, with valid JSON content
NoValidBlock(text) ==
  /\ (\A tb \in TaggedBlocks(text) : ~ValidJson(TaggedContent(text, tb)))
  /\ (\A ub \in UntaggedBlocks(text) : ~ValidJson(UntaggedContent(text, ub)))

Contains(s, sub) == \E i \in 1..(Len(s) + 1) : MatchAt(s, sub, i)

\* the text of the reply the service functions were applied to
InText == ResponseText(pIn.v)


\* the record {kpIndex: 5, forecast: []} of the spec's example scenario
ExampleRecord ==
  ObjectOf(<< <<WeatherDataKey.kpIndex, JNum(5, 0)>>,
              <<WeatherDataKey.forecast, JArr(<<>>)>> >>)

(***************************************************************************)
(* Claims about the extractor and the live paths (under SpecReply).        *)
(***************************************************************************)
\* C1, as stated: whenever the text contains a json-tagged fenced block with
\* valid JSON content, extractJson returns the decoded content of such a
\* block.
C1_AnyValidTaggedBlock ==
  (pOp = "extractJson"
     /\ \E b \in TaggedBlocks(InText) : ValidJson(TaggedContent(InText, b)))
  => \E b \in TaggedBlocks(InText) :
        /\ ValidJson(TaggedContent(InText, b))
        /\ pOut = Return(Decoded(TaggedContent(InText, b)))

\* C1, amended: whenever the first json-tagged fenced block of the text has
\* valid JSON content, extractJson returns the decoded content of that block.
C1_FirstTaggedBlock ==
  (pOp = "extractJson" /\ TaggedBlocks(InText) # {})
  => LET c == TaggedContent(InText, FirstBlock(TaggedBlocks(InText)))
     IN ValidJson(c) => pOut = Return(Decoded(c))

\* C1 witness: the example scenario, "Report:" followed by the tagged block
\* holding {"kpIndex":5,"forecast":[]}, has been extracted to that record.
C1_Witness ==
  /\ pOp = "extractJson"
  /\ InText = SegProse \o SegNewline \o SegTaggedExample
  /\ pOut = Return(ExampleRecord)

\* C2: extractJson never throws, and it returns null for every text that has
\* no fenced block with valid JSON content (no fenced block at all, or only
\* blocks whose content does not parse).
C2_NullWithoutValidBlock ==
  pOp = "extractJson"
  => /\ pOut.kind = "return"
     /\ (NoValidBlock(InText) => pOut.v = JNull)

\* C2 witness: a text whose only fenced block holds content that does not
\* parse has been extracted to null.
C2_Witness ==
  /\ pOp = "extractJson"
  /\ InText = SegProse \o SegNewline \o SegTaggedBroken
  /\ TaggedBlocks(InText) # {}
  /\ pOut = Return(JNull)

\* C3: for a text with a json-tagged block and an untagged block after it,
\* the outcome is the one the first tagged block gives (its decoded content,
\* or null when it does not parse), whatever the untagged block holds.
C3_TaggedTakesPrecedence ==
  (pOp = "extractJson"
     /\ \E tb \in TaggedBlocks(InText) : \E ub \in UntaggedBlocks(InText) :
          ub[1] > tb[2])
  => LET c == TaggedContent(InText, FirstBlock(TaggedBlocks(InText)))
     IN pOut = IF ValidJson(c) THEN Return(Decoded(c)) ELSE Return(JNull)

\* C3 witness: a tagged block that does not parse followed by an untagged
\* block holding valid JSON has been extracted to null, not to the untagged
\* block's content.
C3_Witness ==
  /\ pOp = "extractJson"
  /\ InText = SegTaggedBroken \o SegNewline \o SegUntaggedArray
  /\ \E ub \in UntaggedBlocks(InText) :
        /\ ub[1] > FirstBlock(TaggedBlocks(InText))[2]
        /\ ValidJson(UntaggedContent(InText, ub))
  /\ pOut = Return(JNull)

\* the fenced block extractJson takes the data from: the first tagged block
\* when there is one, else the first untagged block
SourceBlocks(text) ==
  IF TaggedBlocks(text) # {} THEN {FirstBlock(TaggedBlocks(text))}
  ELSE IF UntaggedBlocks(text) # {} THEN {FirstBlock(UntaggedBlocks(text))}
  ELSE {}

\* C4, as stated: whenever a live fetchSpaceWeather returned structured data
\* extracted from a fenced block of the reply, the returned rawText does not
\* contain that block.
C4_BlockStrippedFromRawText ==
  (pOp = "fetchSpaceWeather" /\ pOut.kind = "return" /\ pOut.v.data # JNull)
  => \A b \in SourceBlocks(InText) :
        ~Contains(pOut.v.rawText, BlockText(InText, b))

\* C5: in fallback mode every forecast fetch that settles, whatever the
\* coordinates and however many fetches came before, resolves (it does not
\* reject) no sooner than the simulated delay after it was started, with
\* the fixed demonstration report, whose locationName is "Simulated Sector
\* (Demo)" and whose forecast has 6 points, and with exactly one citation,
\* whose title contains "Simulated".
C5_FallbackFetchFixedReport ==
  (~apiKey /\ settled # NoCall)
  => /\ settled.outcome.kind = "return"
     /\ settled.end - settled.start >= FALLBACK_FETCH_DELAY
     /\ settled.outcome.v.data = MOCK_WEATHER_DATA
     /\ settled.outcome.v.data.o[WeatherDataKey.locationName].s =
          <<"S","i","m","u","l","a","t","e","d"," ","S","e","c","t","o","r",
            " ","(","D","e","m","o",")">>
     /\ Len(settled.outcome.v.data.o[WeatherDataKey.forecast].a) = 6
     /\ Len(settled.outcome.v.sources) = 1
     /\ Contains(settled.outcome.v.sources[1].title,
                 <<"S","i","m","u","l","a","t","e","d">>)

\* C5 witness: without an API key, a second fetch, started by a refresh for
\* a position other than the default one, has resolved.
C5_Witness ==
  /\ ~apiKey
  /\ settled # NoCall
  /\ settled.id = 2
  /\ settled.coords # defaultCoords
  /\ settled.outcome.kind = "return"
  /\ weatherData = MOCK_WEATHER_DATA

\* C6: in fallback mode every send that settles, whatever the message and
\* however many sends came before, gives the fixed explanatory text, leaves
\* the session handle as it was and leaves every message the transcript
\* held in place.
C6_FallbackSendFixedAndPure ==
  [][(~apiKey /\ lastSend' # lastSend)
     => /\ lastSend'.result = Return([text |-> DEMO_MODE_REPLY])
        /\ chatSession' = chatSession
        /\ Len(messages') >= Len(messages)
        /\ SubSeq(messages', 1, Len(messages)) = messages]_vars

\* C6 witness: without an API key, two different messages have been sent and
\* answered, and the transcript holds both turns after the greeting.
C6_Witness ==
  /\ ~apiKey
  /\ lastSend # NoCall
  /\ lastSend.id = 2
  /\ Len(messages) = 5
  /\ messages[2].text # messages[4].text
  /\ messages[3] = Message("model", DEMO_MODE_REPLY)
  /\ messages[5] = Message("model", DEMO_MODE_REPLY)

\* C7: the live analyzeSkyPhoto returns null, and does not throw, whenever
\* the reply is neither valid JSON as a whole nor holds a fenced block with
\* valid JSON content.
C7_NullOnUnparseableReply ==
  (pOp = "analyzeSkyPhoto" /\ pIn.kind = "return"
     /\ ~ValidJson(InText)
     /\ NoValidBlock(InText))
  => pOut = Return(JNull)

\* C7 witness: a reply of prose and a block that does not parse has been
\* analysed to null.
C7_Witness ==
  /\ pOp = "analyzeSkyPhoto"
  /\ pIn.kind = "return"
  /\ InText = SegProse \o SegNewline \o SegUntaggedProse
  /\ ~ValidJson(InText)
  /\ pOut = Return(JNull)

\* C8, as stated: analyzeSkyPhoto never throws, and whatever it returns is
\* null or a record of the PhotoAnalysis shape.
C8_NonNullIsPhotoAnalysis ==
  pOp = "analyzeSkyPhoto"
  => /\ pOut.kind = "return"
     /\ (pOut.v # JNull => IsPhotoAnalysis(pOut.v))

\* C9: when the external call of a live forecast fetch fails, the fetch
\* fails with that failure; when the call succeeds the fetch resolves, and
\* with data = null if the reply has no fenced block with valid JSON
\* content.
C9_CallFailureSurfacesParseFailureNull ==
  pOp = "fetchSpaceWeather"
  => /\ pIn.kind = "throw" => pOut = Throw(pIn.e)
     /\ pIn.kind = "return"
          => /\ pOut.kind = "return"
             /\ NoValidBlock(InText) => pOut.v.data = JNull

\* C9 witness: the external call has failed and the fetch has failed with
\* its error.
C9_Witness ==
  /\ pOp = "fetchSpaceWeather"
  /\ pIn = Throw("ApiError")
  /\ pOut = Throw("ApiError")

\* C10, as stated: whenever the Dashboard shows the report, the weather data
\* and the narrative it shows were written by the same fetch.
C10_DataAndNarrativeFromSameFetch ==
  Shown = "report" => dataFrom = textFrom

\* C11: the sends in flight on one session handle (the handle of one
\* activation of the chat view) are never two: a send is issued only when
\* the send before it on that handle has settled, so the sends of a handle
\* are issued one at a time in the order of the submissions.
C11_OneSendInFlightPerSession ==
  /\ \A s1 \in sends : \A s2 \in sends : s1.mount = s2.mount => s1 = s2
  /\ \A s \in sends :
       (currentView = "CHAT" /\ s.mount = mounts)
       => chatLoading /\ s.session = chatSession

\* C11 witness: while a send is in flight the user has typed the next
\* message, which a submission would have to hold back.
C11_Witness ==
  /\ currentView = "CHAT"
  /\ \E s \in sends : s.mount = mounts
  /\ chatLoading
  /\ Trim(input) # <<>>
  /\ sent = 2

\* C12: a step in which a send of the shown chat fails appends the fixed
\* apology, and nothing else, to the transcript, clears the loading flag
\* and leaves the session handle as it was; and every send is issued on the
\* session handle the component holds.
C12_FailedSendRecoverable ==
  [][/\ ((\E s \in sends \ sends' : currentView = "CHAT" /\ s.mount = mounts)
          /\ lastSend'.result.kind = "throw")
        => /\ messages' = Append(messages,
                                 Message("model", COMM_LINK_DISRUPTED))
           /\ chatLoading' = FALSE
           /\ chatSession' = chatSession
           /\ chatSession.kind = "live"
     /\ \A s \in sends' \ sends : s.session = chatSession']_vars

\* C12 witness: a send failed, the apology is in the transcript, and the
\* next message of the user is in flight on the same session handle.
C12_Witness ==
  /\ currentView = "CHAT"
  /\ lastSend # NoCall
  /\ lastSend.result.kind = "throw"
  /\ Len(messages) >= 4
  /\ messages[Len(messages) - 1] = Message("model", COMM_LINK_DISRUPTED)
  /\ messages[Len(messages)].role = "user"
  /\ \E s \in sends : /\ s.id = lastSend.id + 1
                       /\ s.mount = mounts
                       /\ s.session = chatSession

\* C13: without an API key none of fetchSpaceWeather, analyzeSkyPhoto,
\* createChatSession and the send of the chat calls the external model, and
\* each of them completes without failing, whatever the external model
\* would have done (its promise is fulfilled, or pending only until its
\* timer is due); with a key, the fetch, the analysis and the send do call
\* it.
C13_FallbackGatedByKeyAlone ==
  pOp # "none"
  => /\ ~apiKey
        => /\ ~pOut.external
           /\ pOut.result.kind \in {"pending", "return"}
           /\ pOut.result.kind = "pending"
                => now < TimerDue(pOut.result.start, ServiceDelay) + TickMs
     /\ (apiKey /\ pOp # "createChatSession") => pOut.external

\* C13 witness: without an API key a send has been answered although the
\* external model would have failed.
C13_Witness ==
  /\ ~apiKey
  /\ pIn = Throw("ApiError")
  /\ pOp = "sendMessage"
  /\ pOut = Called(FALSE, Return([text |-> DEMO_MODE_REPLY]))

\* the citations expected of a list of chunks: those with a web reference,
\* in order, each as its uri and title
ExpectedCitations(chunks) ==
  LET web == SelectSeq(chunks, LAMBDA chunk : chunk.hasWeb)
  IN [i \in 1..Len(web) |-> [uri |-> web[i].uri, title |-> web[i].title]]

\* C14: the citations of a live forecast that resolved are exactly the
\* chunks of the reply that carry a web reference, each as {uri, title}, in
\* the order of the reply; a reply without chunks gives the empty list.
C14_CitationsAreWebChunks ==
  (/\ pOp = "fetchSpaceWeather"
   /\ apiKey
   /\ pIn.kind = "return"
   /\ pOut.result.kind # "pending")
  => /\ pOut.result.kind = "return"
     /\ pOut.result.v.sources = ExpectedCitations(pIn.v.chunks)
     /\ pIn.v.chunks = <<>> => pOut.result.v.sources = <<>>

\* C14 witness: a reply whose chunks are one without a web reference and
\* then one with has given the single citation of the latter.
C14_Witness ==
  /\ pOp = "fetchSpaceWeather"
  /\ apiKey
  /\ pIn.kind = "return"
  /\ pOut.result.kind = "return"
  /\ Len(pIn.v.chunks) = 2
  /\ pIn.v.chunks[1] = OtherChunk
  /\ pIn.v.chunks[2].hasWeb
  /\ pOut.result.v.sources =
       <<[uri |-> pIn.v.chunks[2].uri, title |-> pIn.v.chunks[2].title]>>

\* C15: in fallback mode every photo analysis that settles, whatever the
\* photo and the device, resolves (it does not fail) no sooner than the
\* simulated delay after analyzeSkyPhoto was called, to the fixed
\* demonstration analysis, which is not null and has a checklist of 3 items.
C15_FallbackAnalysisFixed ==
  (~apiKey /\ photoSettled # NoCall)
  => /\ photoSettled.outcome = Return(MOCK_PHOTO_ANALYSIS)
     /\ photoSettled.outcome.v # JNull
     /\ IsPhotoAnalysis(photoSettled.outcome.v)
     /\ Len(photoSettled.outcome.v.o[PhotoAnalysisKey.checklist].a) = 3
     /\ photoSettled.end - photoSettled.start >= FALLBACK_PHOTO_DELAY

\* C15 witness: without an API key a second upload, of another photo and
\* for another device than the first, has been analysed and is shown.
C15_Witness ==
  /\ ~apiKey
  /\ photoSettled # NoCall
  /\ photoSettled.id = 2
  /\ photoSettled.photo = "photoB"
  /\ photoSettled.device = "Action Camera"
  /\ analysis = MOCK_PHOTO_ANALYSIS
  /\ ~photoLoading

\* C16: whenever the device position is unavailable -- the lookup was
\* refused or failed, or the browser has no geolocation at all -- the
\* location is the fixed pair (64.1265, -21.8174) and a forecast fetch for
\* that pair has been started.
C16_UnavailableUsesFallbackPair ==
  geolocation \in {"failed", "unsupported"}
  => /\ location = defaultCoords
     /\ calls >= 1
     /\ \/ \E c \in fetches : c.coords = defaultCoords
        \/ settled # NoCall /\ settled.coords = defaultCoords

\* C17, as stated: the outcome of extractJson is null or a record of the
\* WeatherData shape; a block whose content decodes to anything else (a
\* number, a string, an array, a record without the required members) gives
\* null.
C17_OutcomeIsExpectedShapeOrNull ==
  pOp = "extractJson"
  => /\ pOut.kind = "return"
     /\ pOut.v # JNull => IsWeatherData(pOut.v)

\* C18, as stated: whenever a forecast fetch has resolved with data = null,
\* the dashboard (once it is the view shown and nothing is loading) displays
\* the narrative text alone: not an error, not an empty view.
C18_NullDataShowsNarrative ==
  (currentView = "DASHBOARD" /\ ~loading
     /\ settled # NoCall /\ settled.outcome.kind = "return"
     /\ settled.outcome.v.data = JNull)
  => Shown = "narrative"

\* C19: the live analyzeSkyPhoto parses the whole reply as JSON and returns
\* that value when the parse succeeds; only when it fails is the extractor
\* applied to the reply, and the extractor's outcome is then the result.
C19_DirectParseThenExtractor ==
  (pOp = "analyzeSkyPhoto" /\ pIn.kind = "return")
  => /\ ValidJson(InText) => pOut = Return(Decoded(InText))
     /\ ~ValidJson(InText) => pOut = extractJson(InText)

\* C19 witness: a reply that is a JSON object as a whole, with no fenced
\* block for the extractor to find, has been analysed to that object.
C19_Witness ==
  /\ pOp = "analyzeSkyPhoto"
  /\ pIn.kind = "return"
  /\ InText = SegBareObject \o SegNewline
  /\ extractJson(InText) = Return(JNull)
  /\ pOut = Return(ObjectOf(<< <<WeatherDataKey.kp, JNum(5, 0)>> >>))

WithoutBlock(text, b) ==
  SubSeq(text, 1, b[1] - 1) \o SubSeq(text, b[2] + Len(NL_FENCE), Len(text))

\* C21, as stated: the rawText of a live forecast result is the reply text
\* with the fenced structured block (the block the data is extracted from)
\* removed and the surrounding whitespace trimmed; the reply "Report:"
\* followed by a json block gives rawText "Report:".
C21_RawTextIsReplyWithoutBlock ==
  (pOp = "fetchSpaceWeather" /\ pOut.kind = "return")
  => /\ \A b \in SourceBlocks(InText) :
          pOut.v.rawText = Trim(WithoutBlock(InText, b))
     /\ SourceBlocks(InText) = {} => pOut.v.rawText = Trim(InText)

\* C22: every activation of the chat view creates one session, a new one
\* without history, and starts the transcript from the greeting alone; while
\* the view stays open the handle is kept (a live session only grows by the
\* turns that succeeded) and every send is issued on it; leaving the view
\* drops the handle and the transcript.
C22_OneSessionPerActivation ==
  [][/\ mounts' # mounts
          => /\ mounts' = mounts + 1
             /\ currentView # "CHAT" /\ currentView' = "CHAT"
             /\ chatSession' = createChatSession(apiKey)
             /\ chatSession' # JNull
             /\ (chatSession'.kind = "live" => chatSession'.history = <<>>)
             /\ messages' = <<Message("model", GREETING)>>
     /\ (currentView' = "CHAT") => (currentView = "CHAT" \/ mounts' # mounts)
     /\ (mounts' = mounts /\ currentView' = "CHAT"
           /\ chatSession' # chatSession)
          => /\ chatSession.kind = "live" /\ chatSession'.kind = "live"
             /\ Len(chatSession'.history) = Len(chatSession.history) + 2
             /\ SubSeq(chatSession'.history, 1, Len(chatSession.history))
                  = chatSession.history
     /\ \A snd \in sends' \ sends :
          snd.session = chatSession /\ snd.mount = mounts
     /\ (currentView = "CHAT" /\ currentView' # "CHAT")
          => chatSession' = JNull /\ messages' = <<>>]_vars

\* C22 witness: in the second activation of the view, after a send of the
\* first one was answered by the external model, the session has no history
\* and the transcript is the greeting alone.
C22_Witness ==
  /\ apiKey
  /\ currentView = "CHAT"
  /\ mounts = 2
  /\ lastSend # NoCall
  /\ lastSend.result.kind = "return"
  /\ sent = 1
  /\ sends = {}
  /\ chatSession = [kind |-> "live", history |-> <<>>]
  /\ messages = <<Message("model", GREETING)>>

\* the answer the transcript shows for the result r of a send
ShownAnswer(r) ==
  Message("model", IF r.kind = "return" THEN r.v.text ELSE COMM_LINK_DISRUPTED)

\* C23: while the chat view stays open its transcript only grows, by one
\* message at a time: an accepted submission appends the user's message, the
\* settlement of its send appends one model message right after it (the
\* reply, or the fixed apology when the send failed); so after the greeting
\* the transcript alternates user, model, user, model.
C23_TranscriptAppendOnlyOrdered ==
  /\ [](currentView = "CHAT"
          => /\ Len(messages) >= 1
             /\ messages[1] = Message("model", GREETING)
             /\ \A n \in 2..Len(messages) :
                   messages[n].role = IF n % 2 = 0 THEN "user" ELSE "model"
             /\ chatLoading <=> Len(messages) % 2 = 0)
  /\ [][(currentView = "CHAT" /\ currentView' = "CHAT")
          => /\ Len(messages') \in {Len(messages), Len(messages) + 1}
             /\ SubSeq(messages', 1, Len(messages)) = messages
             /\ sent' # sent
                  => messages' = Append(messages, Message("user", input))
             /\ \A snd \in sends \ sends' :
                  snd.mount = mounts
                  => /\ messages[Len(messages)] = Message("user", snd.message)
                     /\ messages' = Append(messages, ShownAnswer(lastSend'.result))
             /\ messages' # messages
                  => \/ sent' # sent
                     \/ \E snd \in sends \ sends' : snd.mount = mounts]_vars

\* C23 witness: one turn was answered by the external model and the next
\* one failed; the transcript holds the greeting and both turns, each user
\* message followed by its answer.
C23_Witness ==
  /\ currentView = "CHAT"
  /\ Len(messages) = 5
  /\ messages[2].role = "user"
  /\ messages[3] = ShownAnswer(Return([text |-> <<"A","l","l"," ","c","l","e","a","r","."," ">>]))
  /\ messages[4].role = "user"
  /\ messages[5] = Message("model", COMM_LINK_DISRUPTED)
  /\ ~chatLoading

\* the latest time the clock of the model reaches
Horizon == (MaxNow \div TickMs) * TickMs

\* every fallback timer in flight is due within the time the model covers
TimersWithinHorizon ==
  \A c \in fetches :
    c.live \/ TimerDue(c.start, FALLBACK_FETCH_DELAY) <= Horizon

\* C24: a step that starts a forecast load sets the loading flag and a step
\* in which a fetch settles, resolved or failed, clears it; and when every
\* fetch settles the app does not stay in the loading state for ever.
C24_LoadingEventuallyCleared ==
  /\ [][/\ calls' # calls => loading'
        /\ settled' # settled => ~loading']_<<calls, settled, loading>>
  /\ (loading /\ TimersWithinHorizon) ~> ~loading

\* C24 witness: a refresh was started after a first fetch, its fetch failed,
\* and the loading flag is cleared.
C24_Witness ==
  /\ calls = 2
  /\ settled # NoCall
  /\ settled.id = 2
  /\ settled.outcome.kind = "throw"
  /\ fetches = {}
  /\ ~loading

\* C25: at most one forecast fetch is in flight, and the loading flag is set
\* exactly while one is; a fetch is started only by the callback of the one
\* position request or from a refresh button of the dashboard, which is on
\* screen only while nothing is loading.
C25_AtMostOneFetchInFlight ==
  /\ [](/\ Cardinality(fetches) <= 1
        /\ loading <=> fetches # {}
        /\ loading => Shown \notin {"narrative", "report"})
  /\ [][calls' # calls
          => /\ calls' = calls + 1
             /\ fetches = {} /\ ~loading
             /\ \/ /\ geolocation = "requested"
                   /\ geolocation' \in {"found", "failed"}
                \/ /\ geolocation' = geolocation
                   /\ Shown \in {"narrative", "report"}]_calls

\* C25 witness: after the first fetch settled, a refresh has its fetch in
\* flight and the dashboard shows the spinner in place of the buttons.
C25_Witness ==
  /\ calls = 2
  /\ settled # NoCall
  /\ settled.id = 1
  /\ Cardinality(fetches) = 1
  /\ loading
  /\ Shown = "spinner"

\* C26, as stated: in the photo guide the loading flag is set whenever an
\* analysis of an upload made in it is in flight, in every interleaving of
\* uploads and completions.
C26_LoadingWhileAnalysisInFlight ==
  (currentView = "PHOTO_GUIDE"
     /\ \E a \in analyses : a.mount = photoMounts /\ a.stage = "analyzing")
  => photoLoading

\* C27, as stated: in the photo guide the result of an earlier upload never
\* replaces the result of a later one: a result that comes to be displayed
\* is that of an upload made after every upload whose analysis has settled
\* before, so that when all have settled the result displayed is that of the
\* photo uploaded last.
C27_LatestUploadDisplayed ==
  [][(analysisFrom' # analysisFrom /\ analysisFrom' # 0
        /\ photoSettled # NoCall)
       => analysisFrom' > photoSettled.id]_<<analysisFrom, photoSettled>>

\* C28: a step in which a forecast fetch fails puts the fixed message
\* "Unable to fetch space weather data at this moment." in the place of the
\* narrative and leaves the weather data and the sources as they were.
C28_FailedFetchReplacesNarrativeOnly ==
  [][(settled' # settled /\ settled'.outcome.kind = "throw")
       => /\ rawText' = UNABLE_TO_FETCH
          /\ weatherData' = weatherData
          /\ sources' = sources]_settled

\* C28 witness: a report with a source was displayed and the fetch of a
\* refresh failed; the report and the source are still there, under the
\* fixed message.
C28_Witness ==
  /\ settled # NoCall
  /\ settled.id = 2
  /\ settled.outcome.kind = "throw"
  /\ weatherData = ExampleRecord
  /\ Len(sources) = 1
  /\ rawText = UNABLE_TO_FETCH

\* C29, as stated: whenever the dashboard is the view shown, a forecast
\* fetch has settled and none is in flight, a button to refresh or to retry
\* is on screen, whatever the fetch returned.
C29_RefreshAvailableAfterSettle ==
  (currentView = "DASHBOARD" /\ settled # NoCall /\ fetches = {})
  => Shown \in {"narrative", "report"}

\* C30: a submission made with an input that is empty or white space only,
\* or while a send is in flight, is turned away: the step issues no send and
\* leaves the transcript, the input and the loading flag as they were; and a
\* send is only ever issued for an input that is not blank, with no send in
\* flight.
C30_RejectedSubmissionChangesNothing ==
  [][/\ submitRejected'
          => /\ Trim(input) = <<>> \/ chatLoading
             /\ sends' = sends /\ sent' = sent
             /\ messages' = messages
             /\ input' = input
             /\ chatLoading' = chatLoading
             /\ chatSession' = chatSession
     /\ sent' # sent
          => /\ Trim(input) # <<>> /\ ~chatLoading
             /\ ~submitRejected']_<<submitRejected, sent>>

\* C30 witness: with a send in flight the user typed the next message and
\* submitted it; it was turned away and is still in the input.
C30_Witness ==
  /\ currentView = "CHAT"
  /\ submitRejected
  /\ chatLoading
  /\ \E snd \in sends : snd.mount = mounts
  /\ input = <<" ","K","p","?">>
  /\ Len(messages) = 2
====
